---- MODULE Spec2Model ----
(***************************************************************************)
(* A model of the wasm-interpreter: the linear memory (src/src/memory.cpp) *)
(* and the stack-based executor (src/src/interpreter.cpp, stack.cpp).      *)
(*                                                                         *)
(* The specifications share the variables:                                 *)
(*   SpecMemory   a Memory object driven through its public operations;    *)
(*   Spec         an Interpreter instance executing function bytecode one  *)
(*                instruction at a time;                                   *)
(*   SpecDecoder  a Decoder applied to byte buffers (src/src/decoder.cpp); *)
(*   SpecInstance an Interpreter instantiating modules with globals, data  *)
(*                segments, tables and imports, and calling into them.     *)
(***************************************************************************)
EXTENDS Integers, Sequences, FiniteSets, TLC

VARIABLES
    memory_,        \* Interpreter::memory_ : the Memory object, or NoMemory
    host_le,        \* byte order of the host the build runs on (memcpy of scalars)
    mem_op,         \* the last Memory operation: its arguments, outcome and the memory before it
    mem_ops,        \* number of Memory operations performed so far (bounded by MaxMemOps)
    module_,        \* Interpreter::module_ : the instantiated module
    stack_,         \* Interpreter::stack_ : the operand stack, a sequence of TypedValue
    call_stack_,    \* Interpreter::call_stack_ : CallStack::frames_
    locals_,        \* Interpreter::locals_
    labels_,        \* Interpreter::labels_
    code_,          \* Interpreter::code_ with code_size_ = Len(code_)
    pc_,            \* Interpreter::pc_ (0-based: code_[pc_] is code_[pc_ + 1] here)
    native_,        \* the C++ call chain: one saved caller context per execute() nested in a CALL
    status,         \* "new" | "idle" | "running" | "returned" | the kind of the exception that ended the call
    results,        \* what callFunction returned
    last,           \* the instruction executed last, with the state it started from
    globals_,       \* Interpreter::globals_ : one TypedValue per global of the instance
    calls,          \* number of calls the host has made on the instance (bounded)
    buffer_,        \* Decoder::buffer_ : the bytes being decoded
    position_,      \* Decoder::position_ (0-based, like pc_)
    decoded         \* the last Decoder operation: its name, outcome and result

memVars  == <<memory_, host_le, mem_op, mem_ops>>
execVars == <<module_, stack_, call_stack_, locals_, labels_, code_, pc_, native_,
              status, results, last, globals_, calls>>
decVars  == <<buffer_, position_, decoded>>
vars     == <<memVars, execVars, decVars>>

-----------------------------------------------------------------------------
(* Numbers.  TLC's integers are 32-bit, so a quantity that can reach 2^32  *)
(* (a uint32_t, a size_t byte count) is written in base 65536 as the record *)
(* [hi, lo] standing for hi * 65536 + lo with lo < 65536.                   *)

Pow2(n) == 2 ^ n

W(hi, lo) == [hi |-> hi, lo |-> lo]

\* a non-negative TLC integer as a wide number
WOfNat(n) == W(n \div 65536, n % 65536)

\* static_cast<uint32_t>(v) of an int32_t v
WOfI32(v) == W((v \div 65536) % 65536, v % 65536)

\* static_cast<int32_t>(w) of a uint32_t w
I32OfW(w) == IF w.hi >= 32768 THEN (w.hi - 65536) * 65536 + w.lo ELSE w.hi * 65536 + w.lo

WAdd(a, b) == W(a.hi + b.hi + ((a.lo + b.lo) \div 65536), (a.lo + b.lo) % 65536)

\* a - b for a >= b
WSub(a, b) ==
    IF a.lo >= b.lo THEN W(a.hi - b.hi, a.lo - b.lo)
    ELSE W(a.hi - b.hi - 1, a.lo + 65536 - b.lo)

WLess(a, b) == a.hi < b.hi \/ (a.hi = b.hi /\ a.lo < b.lo)
WLeq(a, b)  == a = b \/ WLess(a, b)

\* truncation of a wider unsigned value to uint32_t
WU32(a) == W(a.hi % 65536, a.lo)

UINT32_MAX == W(65535, 65535)
INT32_MIN  == -2147483647 - 1

-----------------------------------------------------------------------------
(* Linear memory: src/src/memory.cpp, src/include/memory.h *)

PAGE_SIZE == 65536
MAX_PAGES == 65536

NoMemory == [absent |-> TRUE]

\* std::vector<uint8_t>, kept sparse: `bytes` maps exactly the addresses below
\* `size` that hold a non-zero byte; every other address below `size` holds 0.
EmptyVec == [size |-> W(0, 0), bytes |-> [a \in {} |-> 0]]

VecAt(vec, a) == IF a \in DOMAIN vec.bytes THEN vec.bytes[a] ELSE 0

VecPut(vec, a, b) ==
    LET keep == IF b = 0 THEN DOMAIN vec.bytes \ {a} ELSE DOMAIN vec.bytes \cup {a}
    IN  [size |-> vec.size,
         bytes |-> [x \in keep |-> IF x = a THEN b ELSE vec.bytes[x]]]

\* std::vector::resize(n, 0): truncates, or appends zero bytes
VecResize(vec, n) ==
    [size |-> n,
     bytes |-> [x \in {y \in DOMAIN vec.bytes : WLess(y, n)} |-> vec.bytes[x]]]

\* std::memcpy(&data_[address], src, Len(src))
RECURSIVE VecCopyIn(_, _, _)
VecCopyIn(vec, address, src) ==
    IF src = <<>> THEN vec
    ELSE VecCopyIn(VecPut(vec, address, Head(src)), WAdd(address, W(0, 1)), Tail(src))

\* std::memcpy(dst, &data_[address], n)
VecCopyOut(vec, address, n) ==
    [i \in 1..n |-> VecAt(vec, WAdd(address, W(0, i - 1)))]

\* current_pages_ * PAGE_SIZE: both operands are uint32_t, and so is the product
PagesToBytesWrapped(pages) == WU32(W(pages, 0))

\* the same product without the 32-bit wrap
PagesToBytesExact(pages) == W(pages, 0)

PagesToBytes(pages) == PagesToBytesWrapped(pages)

\* Memory::Memory(const Limits&): the object, or the exception it throws
MemoryCtor(limits) ==
    IF limits.min > MAX_PAGES THEN [exc |-> "MemoryError"]
    ELSE IF limits.has_max /\ limits.max > MAX_PAGES THEN [exc |-> "MemoryError"]
    ELSE IF limits.has_max /\ limits.min > limits.max THEN [exc |-> "MemoryError"]
    ELSE [exc |-> "none",
          mem |-> [limits_ |-> limits,
                   current_pages_ |-> limits.min,
                   data_ |-> VecResize(EmptyVec, PagesToBytes(limits.min))]]

\* Memory::size()
MemSize(m) == m.current_pages_

\* grow() without the check against the declared maximum
GrowNoMaxCheck(m, delta) ==
    LET new_pages == WU32(WAdd(WOfNat(m.current_pages_), delta))
    IN  IF delta = W(0, 0) THEN [ret |-> m.current_pages_, mem |-> m]
        ELSE IF WLess(new_pages, WOfNat(m.current_pages_)) THEN [ret |-> -1, mem |-> m]
        ELSE IF WLess(WOfNat(MAX_PAGES), new_pages) THEN [ret |-> -1, mem |-> m]
        ELSE [ret |-> m.current_pages_,
              mem |-> [m EXCEPT !.current_pages_ = I32OfW(new_pages),
                                !.data_ = VecResize(m.data_, PagesToBytes(I32OfW(new_pages)))]]

\* grow() returning the new page count where the code returns the old one
GrowReturnsNew(m, delta) ==
    LET new_pages == WU32(WAdd(WOfNat(m.current_pages_), delta))
    IN  IF delta = W(0, 0) THEN [ret |-> m.current_pages_, mem |-> m]
        ELSE IF WLess(new_pages, WOfNat(m.current_pages_)) THEN [ret |-> -1, mem |-> m]
        ELSE IF WLess(WOfNat(MAX_PAGES), new_pages) THEN [ret |-> -1, mem |-> m]
        ELSE IF m.limits_.has_max /\ WLess(WOfNat(m.limits_.max), new_pages)
             THEN [ret |-> -1, mem |-> m]
        ELSE [ret |-> I32OfW(new_pages),
              mem |-> [m EXCEPT !.current_pages_ = I32OfW(new_pages),
                                !.data_ = VecResize(m.data_, PagesToBytes(I32OfW(new_pages)))]]

\* Memory::grow(uint32_t delta), delta a wide number: [ret, mem]
grow(m, delta) ==
    LET new_pages == WU32(WAdd(WOfNat(m.current_pages_), delta))
    IN  IF delta = W(0, 0) THEN [ret |-> m.current_pages_, mem |-> m]
        ELSE IF WLess(new_pages, WOfNat(m.current_pages_)) THEN [ret |-> -1, mem |-> m]
        ELSE IF WLess(WOfNat(MAX_PAGES), new_pages) THEN [ret |-> -1, mem |-> m]
        ELSE IF m.limits_.has_max /\ WLess(WOfNat(m.limits_.max), new_pages)
             THEN [ret |-> -1, mem |-> m]
        ELSE [ret |-> m.current_pages_,
              mem |-> [m EXCEPT !.current_pages_ = I32OfW(new_pages),
                                !.data_ = VecResize(m.data_, PagesToBytes(I32OfW(new_pages)))]]

\* Memory::checkAddress(uint32_t address, size_t size): TRUE when it throws.
\* address + size is computed in size_t (64 bits), where it cannot wrap.
checkAddress(m, address, size) ==
    \/ WLess(m.data_.size, WAdd(address, W(0, size)))
    \/ WLess(WAdd(address, W(0, size)), address)

\* Memory::load<T>(address): the object representation of the T read, as
\* sizeof(T) bytes in memory order
load(m, size, address) ==
    IF checkAddress(m, address, size) THEN [exc |-> "MemoryError"]
    ELSE [exc |-> "none", rep |-> VecCopyOut(m.data_, address, size)]

\* store() copying the bytes of the value in a rotated order
storeShifted(m, address, rep) ==
    IF checkAddress(m, address, Len(rep)) THEN [exc |-> "MemoryError", mem |-> m]
    ELSE [exc |-> "none",
          mem |-> [m EXCEPT !.data_ = VecCopyIn(m.data_, address, Tail(rep) \o <<Head(rep)>>)]]

\* Memory::store<T>(address, value), value given by its object representation
store(m, address, rep) ==
    IF checkAddress(m, address, Len(rep)) THEN [exc |-> "MemoryError", mem |-> m]
    ELSE [exc |-> "none", mem |-> [m EXCEPT !.data_ = VecCopyIn(m.data_, address, rep)]]

\* Memory::initialize(uint32_t offset, const std::vector<uint8_t>& data)
initialize(m, offset, data) ==
    IF WLess(m.data_.size, WAdd(offset, W(0, Len(data))))
    THEN [exc |-> "MemoryError", mem |-> m]
    ELSE [exc |-> "none", mem |-> [m EXCEPT !.data_ = VecCopyIn(m.data_, offset, data)]]

\* The scalar types Memory::load and Memory::store are instantiated for
ScalarTypes == {"int8_t", "int16_t", "int32_t", "int64_t", "uint8_t", "uint16_t",
                "uint32_t", "uint64_t", "float", "double"}

SizeOf(T) ==
    CASE T \in {"int8_t", "uint8_t"} -> 1
      [] T \in {"int16_t", "uint16_t"} -> 2
      [] T \in {"int32_t", "uint32_t", "float"} -> 4
      [] T \in {"int64_t", "uint64_t", "double"} -> 8

\* sizeof(T) over the instantiated types: load<T> and store<T> depend on T
\* through sizeof(T) alone
ScalarSizes == {SizeOf(T) : T \in ScalarTypes}

-----------------------------------------------------------------------------
(* Bounds and inputs of the memory specification *)

MaxSmallPages == 1      \* small page counts tried: 0..MaxSmallPages
MaxMemOps == 2          \* Memory operations performed on one object

PageCounts == (0..MaxSmallPages) \cup {MAX_PAGES - 1, MAX_PAGES, MAX_PAGES + 1}

\* types.h Limits: Limits(min) leaves max = 0, has_max = false
LimitsSet ==
    {[min |-> mn, max |-> 0, has_max |-> FALSE] : mn \in PageCounts}
    \cup {[min |-> mn, max |-> mx, has_max |-> TRUE] : mn \in PageCounts, mx \in PageCounts}

Deltas ==
    {WOfNat(n) : n \in (0..MaxSmallPages) \cup {MAX_PAGES - 1, MAX_PAGES}} \cup {UINT32_MAX}

\* addresses at both ends of the data, across the first page boundary and at the
\* top of the 32-bit address space
Addresses(m) ==
    {W(0, 0), W(0, PAGE_SIZE - 4), m.data_.size, UINT32_MAX}
    \cup (IF m.data_.size = W(0, 0) THEN {} ELSE {WSub(m.data_.size, W(0, 1))})

\* object representations of a scalar of n bytes
Reps(n) == {[i \in 1..n |-> i], [i \in 1..n |-> 256 - i]}

SegmentData == {<<>>, <<7>>, <<8, 9>>}

\* a Module with every section empty
EmptyModule ==
    [types |-> <<>>, function_types |-> <<>>, functions |-> <<>>, imports |-> <<>>,
     exports |-> <<>>, memories |-> <<>>, globals |-> <<>>, tables |-> <<>>,
     data_segments |-> <<>>, element_segments |-> <<>>,
     has_start_function |-> FALSE, start_function_index |-> 0]

\* `last` before any instruction has run, and after a return
NoInstr == [opcode |-> -1]

\* the executor's variables while no call is in progress
ExecIdle ==
    /\ module_ = EmptyModule
    /\ stack_ = <<>>
    /\ call_stack_ = <<>>
    /\ locals_ = <<>>
    /\ labels_ = <<>>
    /\ code_ = <<>>
    /\ pc_ = 0
    /\ native_ = <<>>
    /\ status = "idle"
    /\ results = <<>>
    /\ last = NoInstr
    /\ globals_ = <<>>
    /\ calls = 0

\* `decoded` before any Decoder operation
NoDecoded == [op |-> "none"]

\* the decoder's variables while nothing is being decoded
DecIdle ==
    /\ buffer_ = <<>>
    /\ position_ = 0
    /\ decoded = NoDecoded

-----------------------------------------------------------------------------
(* SpecMemory: a Memory object and its public operations *)

InitMemory ==
    /\ \E limits \in LimitsSet :
         LET c == MemoryCtor(limits)
         IN  /\ memory_ = (IF c.exc = "none" THEN c.mem ELSE NoMemory)
             /\ mem_op = [op |-> "ctor", limits |-> limits, exc |-> c.exc]
    /\ host_le = TRUE
    /\ mem_ops = 0
    /\ ExecIdle
    /\ DecIdle

MemReady == memory_ # NoMemory /\ mem_ops < MaxMemOps

MemGrow ==
    /\ MemReady
    /\ \E delta \in Deltas :
         LET r == grow(memory_, delta)
         IN  /\ memory_' = r.mem
             /\ mem_op' = [op |-> "grow", delta |-> delta, ret |-> r.ret, before |-> memory_]
    /\ mem_ops' = mem_ops + 1
    /\ UNCHANGED <<host_le, execVars, decVars>>

MemStore ==
    /\ MemReady
    /\ \E size \in ScalarSizes, address \in Addresses(memory_) :
         \E rep \in Reps(size) :
           LET r == store(memory_, address, rep)
           IN  /\ memory_' = r.mem
               /\ mem_op' = [op |-> "store", size |-> size, address |-> address,
                             rep |-> rep, exc |-> r.exc, before |-> memory_]
    /\ mem_ops' = mem_ops + 1
    /\ UNCHANGED <<host_le, execVars, decVars>>

MemLoad ==
    /\ MemReady
    /\ \E size \in ScalarSizes, address \in Addresses(memory_) :
         LET r == load(memory_, size, address)
         IN  mem_op' = [op |-> "load", size |-> size, address |-> address,
                        rep |-> (IF r.exc = "none" THEN r.rep ELSE <<>>),
                        exc |-> r.exc, before |-> memory_]
    /\ mem_ops' = mem_ops + 1
    /\ UNCHANGED <<memory_, host_le, execVars, decVars>>

MemInitialize ==
    /\ MemReady
    /\ \E offset \in Addresses(memory_), data \in SegmentData :
         LET r == initialize(memory_, offset, data)
         IN  /\ memory_' = r.mem
             /\ mem_op' = [op |-> "initialize", offset |-> offset, data |-> data,
                           exc |-> r.exc, before |-> memory_]
    /\ mem_ops' = mem_ops + 1
    /\ UNCHANGED <<host_le, execVars, decVars>>

NextMemory == MemGrow \/ MemStore \/ MemLoad \/ MemInitialize

SpecMemory == InitMemory /\ [][NextMemory]_vars

-----------------------------------------------------------------------------
(* Claims about the linear memory, checked under SpecMemory *)

\* the bytes of a vector that may differ from zero, as addresses
NonZero(vec) == DOMAIN vec.bytes

\* address lies in [from, from + n)
InRange(address, from, n) == WLeq(from, address) /\ WLess(address, WAdd(from, W(0, n)))

\* C4: after construction and after every operation, the byte length of the
\* memory's data is current_pages * 65536, up to and including 65536 pages.
C4_LengthIsPagesTimesPageSize ==
    memory_ # NoMemory =>
        memory_.data_.size = PagesToBytesExact(memory_.current_pages_)

\* the exact sum current_pages + delta of a recorded grow
GrowSum == WAdd(WOfNat(mem_op.before.current_pages_), mem_op.delta)

\* the three conditions under which grow is specified to fail
GrowMustFail ==
    \/ GrowSum.hi >= 65536
    \/ mem_op.before.limits_.has_max /\ WLess(WOfNat(mem_op.before.limits_.max), GrowSum)
    \/ WLess(WOfNat(MAX_PAGES), GrowSum)

\* C5: grow(delta) returns -1, leaving the page count and every byte unchanged,
\* exactly when current_pages + delta overflows 32 bits, exceeds the declared
\* max or exceeds 65536 pages; for every other delta it succeeds.
C5_GrowFailsExactlyWhenSpecified ==
    mem_op.op = "grow" =>
        /\ (mem_op.ret = -1) <=> GrowMustFail
        /\ mem_op.ret = -1 => memory_ = mem_op.before
        /\ mem_op.ret # -1 => mem_op.ret >= 0

\* a grow refused because current_pages + delta overflows 32 bits, on a memory
\* that holds data
C5_Witness ==
    /\ mem_op.op = "grow"
    /\ mem_op.ret = -1
    /\ GrowSum.hi >= 65536
    /\ NonZero(mem_op.before.data_) # {}

\* C6: when grow(delta) returns old >= 0, old is the page count before the call
\* and size() after the call is old + delta.
C6_GrowReturnsOldAndAddsDelta ==
    (mem_op.op = "grow" /\ mem_op.ret >= 0) =>
        /\ mem_op.ret = MemSize(mem_op.before)
        /\ WOfNat(MemSize(memory_)) = WAdd(WOfNat(mem_op.ret), mem_op.delta)

\* a successful grow by a positive number of pages
C6_Witness ==
    /\ mem_op.op = "grow"
    /\ mem_op.ret >= 0
    /\ mem_op.delta # W(0, 0)
    /\ MemSize(memory_) > MemSize(mem_op.before)

\* the first and the last byte a recorded successful grow added
GrownProbes ==
    IF mem_op.delta = W(0, 0) THEN {}
    ELSE {W(mem_op.before.current_pages_, 0),
          W(mem_op.before.current_pages_ + mem_op.delta.lo - 1, PAGE_SIZE - 1)}

\* C7: after a successful grow, every added byte loads as zero and every byte
\* that was in memory before still loads with its previous value.
C7_GrowZeroFillsAndPreserves ==
    (mem_op.op = "grow" /\ mem_op.ret >= 0) =>
        /\ \A a \in GrownProbes :
             load(memory_, 1, a) = [exc |-> "none", rep |-> <<0>>]
        /\ \A a \in NonZero(mem_op.before.data_) :
             load(memory_, 1, a) = [exc |-> "none", rep |-> <<VecAt(mem_op.before.data_, a)>>]

\* C8: for addr + sizeof(T) within the current byte length, store<T>(addr, value)
\* followed by load<T>(addr) returns value, and the store changes no byte
\* outside [addr, addr + sizeof(T)).
C8_StoreLoadRoundTrip ==
    ( /\ mem_op.op = "store"
      /\ WLeq(WAdd(mem_op.address, W(0, mem_op.size)), mem_op.before.data_.size) ) =>
        /\ mem_op.exc = "none"
        /\ load(memory_, mem_op.size, mem_op.address) = [exc |-> "none", rep |-> mem_op.rep]
        /\ memory_.data_.size = mem_op.before.data_.size
        /\ memory_.current_pages_ = mem_op.before.current_pages_
        /\ \A a \in NonZero(memory_.data_) \cup NonZero(mem_op.before.data_) :
             ~InRange(a, mem_op.address, mem_op.size) =>
                 VecAt(memory_.data_, a) = VecAt(mem_op.before.data_, a)

\* an 8-byte store across the first page boundary, over memory that already
\* holds other data
C8_Witness ==
    /\ mem_op.op = "store"
    /\ mem_op.exc = "none"
    /\ mem_op.size = 8
    /\ mem_op.address = W(0, PAGE_SIZE - 4)
    /\ \E a \in NonZero(mem_op.before.data_) : ~InRange(a, mem_op.address, mem_op.size)

-----------------------------------------------------------------------------
(* Values: src/include/types.h.  A TypedValue is [type, value]; an i32     *)
(* payload is the signed integer, an i64 payload its 64-bit two's           *)
(* complement pattern as four 16-bit limbs, least significant first.       *)

makeI32(v) == [type |-> "i32", value |-> v]
makeI64(v) == [type |-> "i64", value |-> v]

\* bit sequences, least significant bit first
RECURSIVE BitsToNat(_)
BitsToNat(bits) ==
    IF bits = <<>> THEN 0
    ELSE IF Len(bits) = 1 THEN bits[1]
    ELSE LET half == Len(bits) \div 2
         IN  BitsToNat(SubSeq(bits, 1, half))
             + Pow2(half) * BitsToNat(SubSeq(bits, half + 1, Len(bits)))

NatToBits(n, width) == [i \in 1..width |-> (n \div Pow2(i - 1)) % 2]

BitsToLimbs(bits) ==
    [k \in 1..(Len(bits) \div 16) |-> BitsToNat(SubSeq(bits, 16 * (k - 1) + 1, 16 * k))]

\* an int64_t given as a small integer
I64OfInt(v) ==
    <<v % 65536, (v \div 65536) % 65536,
      IF v < 0 THEN 65535 ELSE 0, IF v < 0 THEN 65535 ELSE 0>>

INT64_MIN == <<0, 0, 0, 32768>>

-----------------------------------------------------------------------------
(* Operand stack: src/src/stack.cpp *)

\* Stack::pop(): [exc, val, stack]
pop(stack) ==
    IF stack = <<>> THEN [exc |-> "StackError", stack |-> stack]
    ELSE [exc |-> "none", val |-> stack[Len(stack)], stack |-> SubSeq(stack, 1, Len(stack) - 1)]

\* Stack::popI32(), popI64(): checkNotEmpty, checkType, pop_back
popTyped(stack, type) ==
    IF stack = <<>> THEN [exc |-> "StackError", stack |-> stack]
    ELSE IF stack[Len(stack)].type # type THEN [exc |-> "StackError", stack |-> stack]
    ELSE [exc |-> "none", val |-> stack[Len(stack)].value,
          stack |-> SubSeq(stack, 1, Len(stack) - 1)]

popI32(stack) == popTyped(stack, "i32")
popI64(stack) == popTyped(stack, "i64")

push(stack, tv) == Append(stack, tv)

-----------------------------------------------------------------------------
(* Reading immediates from bytecode: src/src/interpreter.cpp 2260-2343.    *)
(* `code` is 1-based here: the byte code_[pc] of the source is code[pc+1].  *)

OP_UNREACHABLE == 0
OP_NOP == 1
OP_BLOCK == 2
OP_LOOP == 3
OP_IF == 4
OP_ELSE == 5
OP_END == 11
OP_BR == 12
OP_BR_IF == 13
OP_BR_TABLE == 14
OP_RETURN == 15
OP_CALL == 16
OP_CALL_INDIRECT == 17
OP_DROP == 26
OP_SELECT == 27
OP_LOCAL_GET == 32
OP_LOCAL_SET == 33
OP_LOCAL_TEE == 34
OP_GLOBAL_GET == 35
OP_GLOBAL_SET == 36
OP_I32_LOAD == 40
OP_I32_STORE == 54
OP_I64_STORE32 == 62
OP_MEMORY_SIZE == 63
OP_MEMORY_GROW == 64
OP_I32_CONST == 65
OP_I64_CONST == 66
OP_F32_CONST == 67
OP_F64_CONST == 68
OP_I32_EQZ == 69
OP_I32_ADD == 106
OP_I32_SUB == 107
OP_I32_DIV_S == 109
OP_I32_DIV_U == 110
OP_I32_REM_S == 111
OP_I32_REM_U == 112
OP_I64_DIV_S == 127
OP_I64_DIV_U == 128
OP_I64_REM_S == 129
OP_I64_REM_U == 130
OP_I32_WRAP_I64 == 167
OP_F64_REINTERPRET_I64 == 191
OP_PREFIX_FC == 252
VOID_TYPE == 64

ByteAt(code, pc) == code[pc + 1]

\* Interpreter::readByte(): [exc, val, pc]
readByte(code, pc) ==
    IF pc >= Len(code) THEN [exc |-> "InterpreterError", pc |-> pc]
    ELSE [exc |-> "none", val |-> ByteAt(code, pc), pc |-> pc + 1]

\* (byte & 0x7F) << shift, truncated to 32 bits, as a wide number
Group32(byte, shift) ==
    IF shift < 16 THEN WOfNat((byte % 128) * Pow2(shift))
    ELSE IF shift < 32 THEN W(((byte % 128) * Pow2(shift - 16)) % 65536, 0)
    ELSE W(0, 0)

\* the loop of readVarUint32 / readVarInt32: [exc, val (wide), pc, shift, byte]
RECURSIVE readVar32Loop(_, _, _, _)
readVar32Loop(code, pc, result, shift) ==
    LET b == readByte(code, pc)
    IN  IF b.exc # "none" THEN [exc |-> b.exc, pc |-> b.pc]
        ELSE LET acc == WU32(WAdd(result, Group32(b.val, shift)))
             IN  IF b.val < 128
                 THEN [exc |-> "none", val |-> acc, pc |-> b.pc,
                       shift |-> shift + 7, byte |-> b.val]
                 ELSE readVar32Loop(code, b.pc, acc, shift + 7)

\* Interpreter::readVarUint32(): [exc, val (wide), pc]
readVarUint32(code, pc) == readVar32Loop(code, pc, W(0, 0), 0)

\* Interpreter::readVarInt32(): [exc, val (signed integer), pc]
readVarInt32(code, pc) ==
    LET r == readVar32Loop(code, pc, W(0, 0), 0)
    IN  IF r.exc # "none" THEN r
        ELSE [exc |-> "none", pc |-> r.pc,
              val |-> IF r.shift < 32 /\ (r.byte \div 64) % 2 = 1
                      THEN I32OfW(r.val) - Pow2(r.shift)
                      ELSE I32OfW(r.val)]

\* the loop of readVarInt64: the 7-bit groups read, as bits
RECURSIVE readVar64Loop(_, _, _)
readVar64Loop(code, pc, bits) ==
    LET b == readByte(code, pc)
    IN  IF b.exc # "none" THEN [exc |-> b.exc, pc |-> b.pc]
        ELSE LET acc == bits \o NatToBits(b.val % 128, 7)
             IN  IF b.val < 128
                 THEN [exc |-> "none", bits |-> acc, pc |-> b.pc, byte |-> b.val]
                 ELSE readVar64Loop(code, b.pc, acc)

\* Interpreter::readVarInt64(): [exc, val (limbs), pc]
readVarInt64(code, pc) ==
    LET r == readVar64Loop(code, pc, <<>>)
    IN  IF r.exc # "none" THEN r
        ELSE LET shift == Len(r.bits)
                 fill  == IF shift < 64 /\ (r.byte \div 64) % 2 = 1 THEN 1 ELSE 0
                 full  == IF shift >= 64 THEN SubSeq(r.bits, 1, 64)
                          ELSE r.bits \o [i \in 1..(64 - shift) |-> fill]
             IN  [exc |-> "none", pc |-> r.pc, val |-> BitsToLimbs(full)]

-----------------------------------------------------------------------------
(* Forward scan for the matching end: src/src/interpreter.cpp 2127-2241 *)

\* while (pc < code_size_ && (code_[pc] & 0x80)) pc++;  if (pc < code_size_) pc++;
RECURSIVE SkipLeb(_, _)
SkipLeb(code, pc) ==
    IF pc < Len(code) /\ ByteAt(code, pc) >= 128 THEN SkipLeb(code, pc + 1)
    ELSE IF pc < Len(code) THEN pc + 1
    ELSE pc

\* the label count of a br_table as the scan reads it: [count (wide), pc]
RECURSIVE ScanCount(_, _, _, _)
ScanCount(code, pc, count, shift) ==
    IF pc < Len(code) /\ ByteAt(code, pc) >= 128
    THEN ScanCount(code, pc + 1, WU32(WAdd(count, Group32(ByteAt(code, pc), shift))), shift + 7)
    ELSE IF pc < Len(code)
    THEN [count |-> WU32(WAdd(count, Group32(ByteAt(code, pc), shift))), pc |-> pc + 1]
    ELSE [count |-> count, pc |-> pc]

\* for (i = 0; i <= count && pc < code_size_; i++) skip one LEB
RECURSIVE SkipLebs(_, _, _, _)
SkipLebs(code, pc, i, count) ==
    IF WLeq(WOfNat(i), count) /\ pc < Len(code)
    THEN SkipLebs(code, SkipLeb(code, pc), i + 1, count)
    ELSE pc

\* Interpreter::skipInstructionOperands(opcode, pc): the pc after the immediates
skipInstructionOperands(code, opcode, pc) ==
    IF opcode \in {OP_BR, OP_BR_IF, OP_CALL, OP_LOCAL_GET, OP_LOCAL_SET, OP_LOCAL_TEE,
                   OP_GLOBAL_GET, OP_GLOBAL_SET}
    THEN SkipLeb(code, pc)
    ELSE IF opcode = OP_BR_TABLE
    THEN LET c == ScanCount(code, pc, W(0, 0), 0) IN SkipLebs(code, c.pc, 0, c.count)
    ELSE IF opcode \in {OP_I32_CONST, OP_I64_CONST} THEN SkipLeb(code, pc)
    ELSE IF opcode = OP_F32_CONST THEN pc + 4
    ELSE IF opcode = OP_F64_CONST THEN pc + 8
    ELSE IF (opcode >= 40 /\ opcode <= 62) \/ opcode = 63 \/ opcode = 64
    THEN (IF pc < Len(code)
          THEN (LET p1 == SkipLeb(code, pc) IN IF p1 < Len(code) THEN SkipLeb(code, p1) ELSE p1)
          ELSE pc)
    ELSE pc

\* the scanning loop shared by findMatchingEnd and findMatchingElseAndEnd:
\* [exc, pc (after the matching end), else_pc]; with_else tells which of the two
RECURSIVE ScanToEnd(_, _, _, _, _)
ScanToEnd(code, pc, depth, else_pc, with_else) ==
    IF pc >= Len(code) THEN [exc |-> "InterpreterError", pc |-> pc, else_pc |-> else_pc]
    ELSE
      LET opcode == ByteAt(code, pc)
          next   == pc + 1
      IN  IF opcode \in {OP_BLOCK, OP_LOOP, OP_IF}
          THEN ScanToEnd(code, IF next < Len(code) THEN next + 1 ELSE next,
                         depth + 1, else_pc, with_else)
          ELSE IF with_else /\ opcode = OP_ELSE /\ depth = 1
          THEN ScanToEnd(code, next, depth, next, with_else)
          ELSE IF opcode = OP_END
          THEN (IF depth - 1 = 0
                THEN [exc |-> "none", pc |-> next, else_pc |-> else_pc]
                ELSE ScanToEnd(code, next, depth - 1, else_pc, with_else))
          ELSE ScanToEnd(code, skipInstructionOperands(code, opcode, next),
                         depth, else_pc, with_else)

\* Interpreter::findMatchingEnd(start_pc)
findMatchingEnd(code, start_pc) == ScanToEnd(code, start_pc, 1, 0, FALSE)

\* Interpreter::findMatchingElseAndEnd(start_pc, else_pc)
findMatchingElseAndEnd(code, start_pc) == ScanToEnd(code, start_pc, 1, 0, TRUE)

-----------------------------------------------------------------------------
(* Labels and branches: src/src/interpreter.cpp 2080-2125.  The executor    *)
(* state a handler works on is the record X = [stack, labels, locals, pc,   *)
(* code, native, memory, exc, br]; exc names the exception thrown, or       *)
(* "none"; br records the branch the instruction took: the depth passed to  *)
(* branch() with the operand stack and the labels at that moment.           *)

Throw(X, kind) == [X EXCEPT !.exc = kind]

NoBranch == [taken |-> FALSE]

Label(target_pc, stack_height, is_loop, arity) ==
    [target_pc |-> target_pc, stack_height |-> stack_height,
     is_loop |-> is_loop, arity |-> arity]

\* Interpreter::pushLabel
pushLabel(X, target_pc, stack_height, is_loop, arity) ==
    [X EXCEPT !.labels = Append(@, Label(target_pc, stack_height, is_loop, arity))]

\* Interpreter::popLabel
popLabel(X) ==
    IF X.labels = <<>> THEN X
    ELSE [X EXCEPT !.labels = SubSeq(@, 1, Len(@) - 1)]

\* while (stack_.size() > target_height) stack_.pop();
UnwindTo(stack, target_height) ==
    IF Len(stack) > target_height THEN SubSeq(stack, 1, target_height) ELSE stack

\* a branch for which the function body is a target too: the depth that is
\* the number of labels leaves the function as return does
BranchToBodyReturns(X, depth) ==
    IF WOfNat(Len(X.labels)) = depth THEN [X EXCEPT !.pc = Len(X.code), !.labels = <<>>]
    ELSE IF WLeq(WOfNat(Len(X.labels)), depth) THEN Throw(X, "InterpreterError")
    ELSE
      LET label_index  == Len(X.labels) - 1 - depth.lo
          target_label == X.labels[label_index + 1]
      IN  [X EXCEPT !.br = [taken |-> TRUE, depth |-> depth, stack |-> X.stack,
                                  labels |-> X.labels],
                    !.pc = target_label.target_pc,
                    !.stack = UnwindTo(@, target_label.stack_height + target_label.arity),
                    !.labels = IF ~target_label.is_loop
                               THEN SubSeq(@, 1, label_index)
                               ELSE SubSeq(@, 1, label_index + 1)]

\* a branch that removes the target label whatever its kind
BranchRemovesTarget(X, depth) ==
    IF WLeq(WOfNat(Len(X.labels)), depth) THEN Throw(X, "InterpreterError")
    ELSE
      LET label_index  == Len(X.labels) - 1 - depth.lo
          target_label == X.labels[label_index + 1]
      IN  [X EXCEPT !.br = [taken |-> TRUE, depth |-> depth, stack |-> X.stack,
                                  labels |-> X.labels],
                    !.pc = target_label.target_pc,
                    !.stack = UnwindTo(@, target_label.stack_height + target_label.arity),
                    !.labels = SubSeq(@, 1, label_index)]

\* a branch that unwinds to the label's height, dropping the result values too
BranchDropsResults(X, depth) ==
    IF WLeq(WOfNat(Len(X.labels)), depth) THEN Throw(X, "InterpreterError")
    ELSE
      LET label_index  == Len(X.labels) - 1 - depth.lo
          target_label == X.labels[label_index + 1]
      IN  [X EXCEPT !.br = [taken |-> TRUE, depth |-> depth, stack |-> X.stack,
                                  labels |-> X.labels],
                    !.pc = target_label.target_pc,
                    !.stack = UnwindTo(@, target_label.stack_height),
                    !.labels = IF ~target_label.is_loop
                               THEN SubSeq(@, 1, label_index)
                               ELSE SubSeq(@, 1, label_index + 1)]

\* Interpreter::branch(uint32_t depth), depth a wide number
branch(X, depth) ==
    IF WLeq(WOfNat(Len(X.labels)), depth) THEN Throw(X, "InterpreterError")
    ELSE
      LET label_index  == Len(X.labels) - 1 - depth.lo
          target_label == X.labels[label_index + 1]
      IN  [X EXCEPT !.br = [taken |-> TRUE, depth |-> depth, stack |-> X.stack,
                                  labels |-> X.labels],
                    !.pc = target_label.target_pc,
                    !.stack = UnwindTo(@, target_label.stack_height + target_label.arity),
                    !.labels = IF ~target_label.is_loop
                               THEN SubSeq(@, 1, label_index)
                               ELSE SubSeq(@, 1, label_index + 1)]

-----------------------------------------------------------------------------------------------------------------------------------------------------
(* Integer arithmetic of the C++ types, on 16-bit limbs (least significant  *)
(* first): an int32_t / uint32_t is two limbs, an int64_t / uint64_t four.  *)

I32ToLimbs(v) == <<v % 65536, (v \div 65536) % 65536>>
LimbsToI32(l) == I32OfW(W(l[2], l[1]))

RECURSIVE LimbsAddC(_, _, _)
LimbsAddC(a, b, c) ==
    IF a = <<>> THEN <<>>
    ELSE LET s == Head(a) + Head(b) + c
         IN  <<s % 65536>> \o LimbsAddC(Tail(a), Tail(b), s \div 65536)

\* a limb sequence given as a function, as the tuple of its values
Limbs(f) == SubSeq(f, 1, Len(f))

LimbsZero(n) == Limbs([i \in 1..n |-> 0])
LimbsOnes(n) == Limbs([i \in 1..n |-> 65535])
LimbsMin(n)  == Limbs([i \in 1..n |-> IF i = n THEN 32768 ELSE 0])
LimbsNot(a)  == Limbs([i \in 1..Len(a) |-> 65535 - a[i]])

\* a + b, a - b and -a, wrapping at the width of the operands
LimbsAdd(a, b) == LimbsAddC(a, b, 0)
LimbsSub(a, b) == LimbsAddC(a, LimbsNot(b), 1)
LimbsNeg(a)    == LimbsAddC(LimbsNot(a), LimbsZero(Len(a)), 1)

\* a >= b for unsigned a and b of the same width
LimbsGeq(a, b) ==
    \/ \A i \in 1..Len(a) : a[i] = b[i]
    \/ \E i \in 1..Len(a) : a[i] > b[i] /\ \A j \in (i + 1)..Len(a) : a[j] = b[j]

\* bit i (from 1) of a; a with bit i set; (a << 1) | bit
LimbsBit(a, i)    == (a[((i - 1) \div 16) + 1] \div Pow2((i - 1) % 16)) % 2
LimbsSetBit(a, i) == Limbs([a EXCEPT ![((i - 1) \div 16) + 1] = @ + Pow2((i - 1) % 16)])
LimbsShl1(a, bit) ==
    Limbs([k \in 1..Len(a) |->
             (2 * a[k] + (IF k = 1 THEN bit ELSE a[k - 1] \div 32768)) % 65536])

IsNegative(a) == a[Len(a)] >= 32768

\* the bits of a limb sequence
LimbsToBits(l) ==
    Limbs([i \in 1..(16 * Len(l)) |-> (l[((i - 1) \div 16) + 1] \div Pow2((i - 1) % 16)) % 2])

\* what a build makes of x << shift with shift at or beyond the width of x,
\* which the language leaves undefined: the count taken modulo the width, or
\* every bit shifted out
ShiftCountOutcomes == {"masked", "zero"}

BitsZero(width) == Limbs([i \in 1..width |-> 0])

\* (byte & 0x7F) << shift in a type of `width` bits
GroupShifted(byte, shift, width, ub) ==
    LET sh == IF shift < width THEN shift
              ELSE IF ub = "masked" THEN shift % width
              ELSE width
        g  == NatToBits(byte % 128, 7)
    IN  Limbs([i \in 1..width |-> IF i > sh /\ i <= sh + 7 THEN g[i - sh] ELSE 0])

\* a | b
BitsOr(a, b) == Limbs([i \in 1..Len(a) |-> IF a[i] = 1 \/ b[i] = 1 THEN 1 ELSE 0])

\* the sign extension left out
NoSignExtend(bits, shift) == bits

\* result |= -(1 << shift)
SignExtend(bits, shift) == Limbs([i \in 1..Len(bits) |-> IF i > shift THEN 1 ELSE bits[i]])

\* if (shift < width && (byte & 0x40)) result |= -(1 << shift);
ExtendIfSigned(bits, shift, byte) ==
    IF shift < Len(bits) /\ (byte \div 64) % 2 = 1 THEN SignExtend(bits, shift) ELSE bits

\* long division, bits i down to stop + 1 of the dividend a; the state is the
\* quotient q and the partial remainder r, which has one limb more than a
RECURSIVE DivBits(_, _, _, _, _)
DivBits(a, b, i, stop, st) ==
    IF i = stop THEN st
    ELSE LET shifted == LimbsShl1(st.r, LimbsBit(a, i))
             wide_b  == b \o <<0>>
         IN  IF LimbsGeq(shifted, wide_b)
             THEN DivBits(a, b, i - 1, stop,
                          [q |-> LimbsSetBit(st.q, i), r |-> LimbsSub(shifted, wide_b)])
             ELSE DivBits(a, b, i - 1, stop, [q |-> st.q, r |-> shifted])

\* the same, limb k of the dividend down to limb 1
RECURSIVE DivLimbs(_, _, _, _)
DivLimbs(a, b, k, st) ==
    IF k = 0 THEN st
    ELSE DivLimbs(a, b, k - 1, DivBits(a, b, 16 * k, 16 * (k - 1), st))

\* a / b and a % b of an unsigned type, b # 0: [q, r]
DivU(a, b) ==
    LET d == DivLimbs(a, b, Len(a), [q |-> LimbsZero(Len(a)), r |-> LimbsZero(Len(a) + 1)])
    IN  [q |-> d.q, r |-> SubSeq(d.r, 1, Len(a))]

\* a / b and a % b of a signed type where the language defines them (b # 0 and
\* not INT_MIN / -1): the quotient truncates toward zero, the remainder has the
\* sign of a
DivS(a, b) ==
    LET ma == IF IsNegative(a) THEN LimbsNeg(a) ELSE a
        mb == IF IsNegative(b) THEN LimbsNeg(b) ELSE b
        d  == DivU(ma, mb)
    IN  [q |-> IF IsNegative(a) # IsNegative(b) THEN LimbsNeg(d.q) ELSE d.q,
         r |-> IF IsNegative(a) THEN LimbsNeg(d.r) ELSE d.r]

\* the payload of an i32 / i64 TypedValue as limbs, and back
IntLimbs(type, v) == IF type = "i32" THEN I32ToLimbs(v) ELSE v
LimbsInt(type, l) == IF type = "i32" THEN LimbsToI32(l) ELSE l

\* Value() : i64(0) seen through a tag
ZeroOf(type) ==
    CASE type = "i64" -> <<0, 0, 0, 0>>
      [] type = "f32" -> <<0, 0, 0, 0>>
      [] type = "f64" -> <<0, 0, 0, 0, 0, 0, 0, 0>>
      [] OTHER -> 0

\* TypedValue() : type(ValueType::I32), value()
DefaultValue == [type |-> "i32", value |-> 0]

\* the object representation of an int32_t on the host, and back
RepOfI32(v, le) ==
    LET l   == I32ToLimbs(v)
        lsb == <<l[1] % 256, l[1] \div 256, l[2] % 256, l[2] \div 256>>
    IN  IF le THEN lsb ELSE [k \in 1..4 |-> lsb[5 - k]]

I32OfRep(rep, le) ==
    LET lsb == IF le THEN rep ELSE [k \in 1..4 |-> rep[5 - k]]
    IN  LimbsToI32(<<lsb[1] + 256 * lsb[2], lsb[3] + 256 * lsb[4]>>)

-----------------------------------------------------------------------------
(* The module and function entry: src/src/module.cpp,                       *)
(* src/src/interpreter.cpp 61-92 and 225-284                                *)

MAX_DEPTH == 1024

\* Module::getImportedFunctionCount()
getImportedFunctionCount(M) ==
    Cardinality({i \in 1..Len(M.imports) : M.imports[i].kind = "FUNCTION"})

\* Module::getTotalFunctionCount()
getTotalFunctionCount(M) == getImportedFunctionCount(M) + Len(M.functions)

NullType == [null |-> TRUE]

\* Module::getFunctionType(func_index), func_index a wide number
getFunctionType(M, func_index) ==
    LET import_count == WOfNat(getImportedFunctionCount(M))
    IN  IF WLess(func_index, import_count) THEN NullType
        ELSE LET local_index == WSub(func_index, import_count)
             IN  IF WLeq(WOfNat(Len(M.function_types)), local_index) THEN NullType
                 ELSE LET type_index == M.function_types[local_index.lo + 1]
                      IN  IF type_index >= Len(M.types) THEN NullType
                          ELSE M.types[type_index + 1]

NullExport == [null |-> TRUE]

\* Module::findExport(name): the first export of that name, or NullExport
findExport(M, name) ==
    LET hits == {i \in 1..Len(M.exports) : M.exports[i].name = name}
    IN  IF hits = {} THEN NullExport
        ELSE M.exports[CHOOSE i \in hits : \A j \in hits : i <= j]

\* Interpreter::validateFunctionCall: TRUE when it throws
validateFunctionCall(M, func_index) ==
    WLeq(WOfNat(getTotalFunctionCount(M)), func_index)

\* the parameters filled in the order they are popped
RECURSIVE PopParamsInPopOrder(_, _)
PopParamsInPopOrder(X, i) ==
    IF i = 0 THEN X
    ELSE LET p == pop(X.stack)
             n == Cardinality({k \in 1..Len(X.locals) : X.locals[k] # DefaultValue}) + 1
         IN  IF p.exc # "none" THEN Throw(X, p.exc)
             ELSE PopParamsInPopOrder([X EXCEPT !.stack = p.stack, !.locals[n] = p.val], i - 1)

\* for (i = param_count; i > 0; i--) locals_[i - 1] = stack_.pop();
RECURSIVE PopParams(_, _)
PopParams(X, i) ==
    IF i = 0 THEN X
    ELSE LET p == pop(X.stack)
         IN  IF p.exc # "none" THEN Throw(X, p.exc)
             ELSE PopParams([X EXCEPT !.stack = p.stack, !.locals[i] = p.val], i - 1)

\* the iovecs of fd_write, for (i = 0; i < iovs_len; i++): [exc, total], total
\* the bytes written.  The characters go to std::cout or std::cerr, which are
\* no state of the interpreter; loadU8 of each of them fails on the first one
\* past the end of the memory.
RECURSIVE FdWriteVectors(_, _, _, _, _)
FdWriteVectors(memory, iovs_ptr, iovs_len, i, total) ==
    IF i >= iovs_len THEN [exc |-> "none", total |-> total]
    ELSE
      LET iovec_addr == WU32(WAdd(WOfI32(iovs_ptr), WOfNat(i * 8)))
          buf_ptr    == load(memory, 4, iovec_addr)
      IN  IF buf_ptr.exc # "none" THEN [exc |-> buf_ptr.exc, total |-> total]
          ELSE
            LET buf_len == load(memory, 4, WU32(WAdd(iovec_addr, W(0, 4))))
            IN  IF buf_len.exc # "none" THEN [exc |-> buf_len.exc, total |-> total]
                ELSE
                  LET ptr == WOfI32(I32OfRep(buf_ptr.rep, host_le))
                      len == WOfI32(I32OfRep(buf_len.rep, host_le))
                  IN  IF len # W(0, 0) /\ WLess(memory.data_.size, WAdd(ptr, len))
                      THEN [exc |-> "MemoryError", total |-> total]
                      ELSE FdWriteVectors(memory, iovs_ptr, iovs_len, i + 1,
                                          WU32(WAdd(total, len)))

\* nwritten_ptr = popI32(), iovs_len = popI32(), iovs_ptr = popI32(),
\* fd = popI32(): [exc, stack, args], args in the order popped
RECURSIVE PopI32s(_, _, _)
PopI32s(stack, n, args) ==
    IF n = 0 THEN [exc |-> "none", stack |-> stack, args |-> args]
    ELSE LET a == popI32(stack)
         IN  IF a.exc # "none" THEN [exc |-> a.exc, stack |-> a.stack, args |-> args]
             ELSE PopI32s(a.stack, n - 1, Append(args, a.val))

\* fd_write after its four pops
FdWrite(X, nwritten_ptr, iovs_len, iovs_ptr) ==
    LET written == FdWriteVectors(X.memory, iovs_ptr, iovs_len, 0, W(0, 0))
    IN  IF written.exc # "none" THEN Throw(X, written.exc)
        ELSE LET stored == store(X.memory, WOfI32(nwritten_ptr),
                                 RepOfI32(I32OfW(written.total), host_le))
             IN  IF stored.exc # "none" THEN Throw(X, stored.exc)
                 ELSE [X EXCEPT !.memory = stored.mem, !.stack = push(@, makeI32(0))]

\* Interpreter::executeWASIFdWrite()
executeWASIFdWrite(X) ==
    IF X.memory = NoMemory THEN Throw(X, "InterpreterError")
    ELSE LET a == PopI32s(X.stack, 4, <<>>)
         IN  IF a.exc # "none" THEN Throw([X EXCEPT !.stack = a.stack], a.exc)
             ELSE FdWrite([X EXCEPT !.stack = a.stack], a.args[1], a.args[2], a.args[3])

\* the import execute() routes to the host: imports[func_index] is a function
\* of wasi_snapshot_preview1 named fd_write
RoutedToFdWrite(M, func_index) ==
    /\ WLess(func_index, WOfNat(Len(M.imports)))
    /\ M.imports[func_index.lo + 1].kind = "FUNCTION"
    /\ M.imports[func_index.lo + 1].module_name = "wasi_snapshot_preview1"
    /\ M.imports[func_index.lo + 1].field_name = "fd_write"

\* execute that leaves pc_ where the call before left it
executeKeepsPc(X, M, func_index) ==
    LET import_count == WOfNat(getImportedFunctionCount(M))
    IN  IF WLess(func_index, import_count)
        THEN (IF RoutedToFdWrite(M, func_index) THEN executeWASIFdWrite(X)
              ELSE Throw(X, "InterpreterError"))
        ELSE
          LET local_index == WSub(func_index, import_count)
          IN  IF WLeq(WOfNat(Len(M.functions)), local_index) THEN Throw(X, "InterpreterError")
              ELSE
                LET func        == M.functions[local_index.lo + 1]
                    func_type   == getFunctionType(M, func_index)
                IN  IF func_type = NullType THEN Throw(X, "InterpreterError")
                    ELSE
                      LET param_count == Len(func_type.params)
                          local_count == Len(func.locals)
                          resized == [X EXCEPT !.locals =
                                        [i \in 1..(param_count + local_count) |-> DefaultValue]]
                          popped  == PopParams(resized, param_count)
                      IN  IF popped.exc # "none" THEN popped
                          ELSE [popped EXCEPT
                                  !.locals = [i \in 1..(param_count + local_count) |->
                                                IF i <= param_count THEN popped.locals[i]
                                                ELSE [type  |-> func.locals[i - param_count],
                                                      value |-> ZeroOf(func.locals[i - param_count])]],
                                  !.code = func.body,
                                  !.labels = <<>>]

\* Interpreter::execute(func_index) up to its instruction loop, or through the
\* host call of an import
execute(X, M, func_index) ==
    LET import_count == WOfNat(getImportedFunctionCount(M))
    IN  IF WLess(func_index, import_count)
        THEN (IF RoutedToFdWrite(M, func_index) THEN executeWASIFdWrite(X)
              ELSE Throw(X, "InterpreterError"))
        ELSE
          LET local_index == WSub(func_index, import_count)
          IN  IF WLeq(WOfNat(Len(M.functions)), local_index) THEN Throw(X, "InterpreterError")
              ELSE
                LET func        == M.functions[local_index.lo + 1]
                    func_type   == getFunctionType(M, func_index)
                IN  IF func_type = NullType THEN Throw(X, "InterpreterError")
                    ELSE
                      LET param_count == Len(func_type.params)
                          local_count == Len(func.locals)
                          resized == [X EXCEPT !.locals =
                                        [i \in 1..(param_count + local_count) |-> DefaultValue]]
                          popped  == PopParams(resized, param_count)
                      IN  IF popped.exc # "none" THEN popped
                          ELSE [popped EXCEPT
                                  !.locals = [i \in 1..(param_count + local_count) |->
                                                IF i <= param_count THEN popped.locals[i]
                                                ELSE [type  |-> func.locals[i - param_count],
                                                      value |-> ZeroOf(func.locals[i - param_count])]],
                                  !.code = func.body,
                                  !.pc = 0,
                                  !.labels = <<>>]

\* for (i = result_count; i > 0; i--) results[i - 1] = stack_.pop();
\* [exc, stack, results]
RECURSIVE PopResults(_, _, _)
PopResults(stack, res, i) ==
    IF i = 0 THEN [exc |-> "none", stack |-> stack, results |-> res]
    ELSE LET p == pop(stack)
         IN  IF p.exc # "none" THEN [exc |-> p.exc, stack |-> stack, results |-> res]
             ELSE PopResults(p.stack, [res EXCEPT ![i] = p.val], i - 1)

-----------------------------------------------------------------------------
(* Instruction handlers: src/src/interpreter.cpp 286-1221.  A handler takes *)
(* the executor state with pc already past the opcode.                      *)

\* src/src/instructions.cpp
isControlFlowInstruction(opcode) == opcode >= OP_UNREACHABLE /\ opcode <= OP_CALL_INDIRECT

isMemoryInstruction(opcode) ==
    \/ opcode >= OP_I32_LOAD /\ opcode <= OP_I64_STORE32
    \/ opcode = OP_MEMORY_SIZE
    \/ opcode = OP_MEMORY_GROW

isNumericInstruction(opcode) ==
    \/ opcode >= OP_I32_CONST /\ opcode <= OP_F64_CONST
    \/ opcode >= OP_I32_EQZ /\ opcode <= OP_F64_REINTERPRET_I64

\* the handler Interpreter::executeInstruction dispatches an opcode to
Handler(opcode) ==
    IF isControlFlowInstruction(opcode) THEN "executeControlFlow"
    ELSE IF opcode = OP_DROP \/ opcode = OP_SELECT THEN "executeParametric"
    ELSE IF opcode >= OP_LOCAL_GET /\ opcode <= OP_GLOBAL_SET THEN "executeVariable"
    ELSE IF isMemoryInstruction(opcode) THEN "executeMemory"
    ELSE IF opcode >= OP_I32_CONST /\ opcode <= OP_F64_CONST THEN "executeNumericConst"
    ELSE IF opcode >= OP_I32_WRAP_I64 /\ opcode <= OP_F64_REINTERPRET_I64 THEN "executeConversion"
    ELSE IF opcode = OP_PREFIX_FC THEN "executeConversion"
    ELSE IF isNumericInstruction(opcode) THEN "executeNumeric"
    ELSE "unknown"

\* the br_table immediates: for (i < label_count) labels.push_back(readVarUint32())
\* [exc, labels, pc]
RECURSIVE ReadLabels(_, _, _, _)
ReadLabels(code, pc, n, acc) ==
    IF n = 0 THEN [exc |-> "none", labels |-> acc, pc |-> pc]
    ELSE LET r == readVarUint32(code, pc)
         IN  IF r.exc # "none" THEN [exc |-> r.exc, labels |-> acc, pc |-> r.pc]
             ELSE ReadLabels(code, r.pc, n - 1, Append(acc, r.val))

MaxNesting == 1026      \* execute() invocations the host stack holds before it is exhausted

\* the nested execute(func_index) of CALL and CALL_INDIRECT, the caller's
\* state saved on the native stack; entry_stack records the operand stack the
\* callee found (history, no member of the C++ frame)
Invoke(X, M, func_index) ==
    LET saved == [return_pc     |-> X.pc,
                  return_code   |-> X.code,
                  return_locals |-> X.locals,
                  return_labels |-> X.labels,
                  func_index    |-> func_index,
                  entry_stack   |-> X.stack]
    IN  IF Len(X.native) >= MaxNesting THEN Throw(X, "HostStackOverflow")
        ELSE execute([X EXCEPT !.native = Append(@, saved)], M, func_index)

\* the while loop of CALL_INDIRECT over the LEB128 of an i32.const offset
RECURSIVE ElementOffsetLoop(_, _, _, _, _)
ElementOffsetLoop(expr, pos, value, shift, ub) ==
    IF pos >= Len(expr) - 1 THEN value
    ELSE LET byte == expr[pos + 1]
             acc  == BitsOr(value, GroupShifted(byte, shift, 32, ub))
         IN  IF byte < 128 THEN acc
             ELSE ElementOffsetLoop(expr, pos + 1, acc, shift + 7, ub)

\* the offset CALL_INDIRECT gives an element segment: only i32.const is
\* evaluated, and without sign extension
ElementOffset(expr, ub) ==
    IF expr # <<>> /\ expr[1] = OP_I32_CONST
    THEN LET l == BitsToLimbs(ElementOffsetLoop(expr, 1, BitsZero(32), 0, ub))
         IN  W(l[2], l[1])
    ELSE W(0, 0)

NotFound == [found |-> FALSE]

\* for (elem : module_->element_segments) from segment i on: [found, func_index]
RECURSIVE ResolveElement(_, _, _, _)
ResolveElement(element_segments, i, elem_index, ub) ==
    IF i > Len(element_segments) THEN NotFound
    ELSE LET elem         == element_segments[i]
             actual_index == WU32(WSub(elem_index, ElementOffset(elem.offset_expr, ub)))
         IN  IF elem.table_index = 0 /\ WLess(actual_index, WOfNat(Len(elem.func_indices)))
             THEN [found |-> TRUE, func_index |-> WOfNat(elem.func_indices[actual_index.lo + 1])]
             ELSE ResolveElement(element_segments, i + 1, elem_index, ub)

\* the type checks of CALL_INDIRECT: TRUE when one of them throws
SignatureMismatch(M, func_index, type_index) ==
    LET func_type == getFunctionType(M, func_index)
    IN  IF func_type = NullType \/ WLeq(WOfNat(Len(M.types)), type_index) THEN TRUE
        ELSE LET expected_type == M.types[type_index.lo + 1]
             IN  \/ Len(func_type.params) # Len(expected_type.params)
                 \/ Len(func_type.results) # Len(expected_type.results)
                 \/ \E k \in 1..Len(func_type.params) :
                      func_type.params[k] # expected_type.params[k]
                 \/ \E k \in 1..Len(func_type.results) :
                      func_type.results[k] # expected_type.results[k]

\* Interpreter::executeControlFlow(opcode)
executeControlFlow(X, opcode, M, ub) ==
    CASE opcode = OP_NOP -> X
      [] opcode = OP_UNREACHABLE -> Throw(X, "Trap")
      [] opcode = OP_BLOCK ->
           LET block_type == readByte(X.code, X.pc)
           IN  IF block_type.exc # "none" THEN Throw(X, block_type.exc)
               ELSE LET arity  == IF block_type.val = VOID_TYPE THEN 0 ELSE 1
                        X1     == [X EXCEPT !.pc = block_type.pc]
                        end_pc == findMatchingEnd(X1.code, X1.pc)
                    IN  IF end_pc.exc # "none" THEN Throw(X1, end_pc.exc)
                        ELSE pushLabel(X1, end_pc.pc, Len(X1.stack), FALSE, arity)
      [] opcode = OP_LOOP ->
           LET loop_type == readByte(X.code, X.pc)
           IN  IF loop_type.exc # "none" THEN Throw(X, loop_type.exc)
               ELSE LET X1 == [X EXCEPT !.pc = loop_type.pc]
                    IN  [X1 EXCEPT !.labels = Append(@, Label(X1.pc, Len(X1.stack), TRUE, 0))]
      [] opcode = OP_IF ->
           LET result_type == readByte(X.code, X.pc)
           IN  IF result_type.exc # "none" THEN Throw(X, result_type.exc)
               ELSE
                 LET arity     == IF result_type.val = VOID_TYPE THEN 0 ELSE 1
                     X1        == [X EXCEPT !.pc = result_type.pc]
                     condition == popI32(X1.stack)
                 IN  IF condition.exc # "none" THEN Throw(X1, condition.exc)
                     ELSE
                       LET X2 == [X1 EXCEPT !.stack = condition.stack]
                           e  == findMatchingElseAndEnd(X2.code, X2.pc)
                       IN  IF e.exc # "none" THEN Throw(X2, e.exc)
                           ELSE
                             LET X3 == pushLabel(X2, e.pc, Len(X2.stack), FALSE, arity)
                             IN  IF condition.val = 0
                                 THEN (IF e.else_pc > 0 THEN [X3 EXCEPT !.pc = e.else_pc]
                                       ELSE popLabel([X3 EXCEPT !.pc = e.pc]))
                                 ELSE X3
      [] opcode = OP_ELSE ->
           IF X.labels = <<>> THEN Throw(X, "InterpreterError")
           ELSE popLabel([X EXCEPT !.pc = X.labels[Len(X.labels)].target_pc])
      [] opcode = OP_END -> IF X.labels # <<>> THEN popLabel(X) ELSE X
      [] opcode = OP_BR ->
           LET depth == readVarUint32(X.code, X.pc)
           IN  IF depth.exc # "none" THEN Throw([X EXCEPT !.pc = depth.pc], depth.exc)
               ELSE branch([X EXCEPT !.pc = depth.pc], depth.val)
      [] opcode = OP_BR_IF ->
           LET depth == readVarUint32(X.code, X.pc)
           IN  IF depth.exc # "none" THEN Throw([X EXCEPT !.pc = depth.pc], depth.exc)
               ELSE
                 LET X1        == [X EXCEPT !.pc = depth.pc]
                     condition == popI32(X1.stack)
                 IN  IF condition.exc # "none" THEN Throw(X1, condition.exc)
                     ELSE IF condition.val # 0
                          THEN branch([X1 EXCEPT !.stack = condition.stack], depth.val)
                          ELSE [X1 EXCEPT !.stack = condition.stack]
      [] opcode = OP_BR_TABLE ->
           \* label counts in the code of this model stay below 65536
           LET label_count == readVarUint32(X.code, X.pc)
           IN  IF label_count.exc # "none"
               THEN Throw([X EXCEPT !.pc = label_count.pc], label_count.exc)
               ELSE
                 LET labels == ReadLabels(X.code, label_count.pc, label_count.val.lo, <<>>)
                 IN  IF labels.exc # "none" THEN Throw([X EXCEPT !.pc = labels.pc], labels.exc)
                     ELSE
                       LET default_label == readVarUint32(X.code, labels.pc)
                       IN  IF default_label.exc # "none"
                           THEN Throw([X EXCEPT !.pc = default_label.pc], default_label.exc)
                           ELSE
                             LET X1    == [X EXCEPT !.pc = default_label.pc]
                                 index == popI32(X1.stack)
                             IN  IF index.exc # "none" THEN Throw(X1, index.exc)
                                 ELSE
                                   LET selected_depth ==
                                         IF index.val < 0
                                            \/ WLeq(label_count.val, WOfI32(index.val))
                                         THEN default_label.val
                                         ELSE labels.labels[index.val + 1]
                                   IN  branch([X1 EXCEPT !.stack = index.stack], selected_depth)
      [] opcode = OP_RETURN -> [X EXCEPT !.pc = Len(X.code), !.labels = <<>>]
      [] opcode = OP_CALL ->
           LET func_index == readVarUint32(X.code, X.pc)
           IN  IF func_index.exc # "none"
               THEN Throw([X EXCEPT !.pc = func_index.pc], func_index.exc)
               ELSE
                 LET X1 == [X EXCEPT !.pc = func_index.pc]
                 IN  Invoke(X1, M, func_index.val)
      [] opcode = OP_CALL_INDIRECT ->
           LET type_index == readVarUint32(X.code, X.pc)
           IN  IF type_index.exc # "none"
               THEN Throw([X EXCEPT !.pc = type_index.pc], type_index.exc)
               ELSE
                 LET reserved == readByte(X.code, type_index.pc)
                     X1 == [X EXCEPT !.pc = reserved.pc]
                 IN  IF reserved.exc # "none" THEN Throw(X1, reserved.exc)
                     ELSE IF reserved.val # 0 THEN Throw(X1, "InterpreterError")
                     ELSE
                       LET elem_index == popI32(X1.stack)
                       IN  IF elem_index.exc # "none" THEN Throw(X1, elem_index.exc)
                           ELSE
                             LET X2 == [X1 EXCEPT !.stack = elem_index.stack]
                                 r  == ResolveElement(M.element_segments, 1,
                                                      WOfI32(elem_index.val), ub)
                             IN  IF elem_index.val < 0 THEN Throw(X2, "Trap")
                                 ELSE IF ~r.found THEN Throw(X2, "Trap")
                                 ELSE IF SignatureMismatch(M, r.func_index, type_index.val)
                                 THEN Throw(X2, "Trap")
                                 ELSE Invoke(X2, M, r.func_index)
      [] OTHER -> Throw(X, "InterpreterError")

\* Interpreter::executeParametric(opcode)
executeParametric(X, opcode) ==
    CASE opcode = OP_DROP ->
           LET p == pop(X.stack)
           IN  IF p.exc # "none" THEN Throw(X, p.exc) ELSE [X EXCEPT !.stack = p.stack]
      [] opcode = OP_SELECT ->
           LET c == popI32(X.stack)
           IN  IF c.exc # "none" THEN Throw(X, c.exc)
               ELSE
                 LET val2 == pop(c.stack)
                 IN  IF val2.exc # "none" THEN Throw([X EXCEPT !.stack = c.stack], val2.exc)
                     ELSE
                       LET val1 == pop(val2.stack)
                       IN  IF val1.exc # "none"
                           THEN Throw([X EXCEPT !.stack = val2.stack], val1.exc)
                           ELSE [X EXCEPT !.stack =
                                   push(val1.stack, IF c.val # 0 THEN val1.val ELSE val2.val)]
      [] OTHER -> Throw(X, "InterpreterError")

\* Interpreter::setGlobal(index, value)
setGlobal(X, M, index, value) ==
    IF WLeq(WOfNat(Len(X.globals)), index) THEN Throw(X, "InterpreterError")
    ELSE IF ~M.globals[index.lo + 1].is_mutable THEN Throw(X, "InterpreterError")
    ELSE [X EXCEPT !.globals[index.lo + 1] = value]

\* Interpreter::executeVariable(opcode)
executeVariable(X, opcode, M) ==
    LET index == readVarUint32(X.code, X.pc)
    IN  IF index.exc # "none" THEN Throw([X EXCEPT !.pc = index.pc], index.exc)
        ELSE
          LET X1  == [X EXCEPT !.pc = index.pc]
              bad == WLeq(WOfNat(Len(X1.locals)), index.val)
          IN  CASE opcode = OP_LOCAL_GET ->
                     IF bad THEN Throw(X1, "InterpreterError")
                     ELSE [X1 EXCEPT !.stack = push(@, X1.locals[index.val.lo + 1])]
                [] opcode = OP_LOCAL_SET ->
                     LET p == pop(X1.stack)
                     IN  IF p.exc # "none" THEN Throw(X1, p.exc)
                         ELSE IF bad THEN Throw([X1 EXCEPT !.stack = p.stack], "InterpreterError")
                         ELSE [X1 EXCEPT !.stack = p.stack, !.locals[index.val.lo + 1] = p.val]
                [] opcode = OP_LOCAL_TEE ->
                     IF X1.stack = <<>> THEN Throw(X1, "StackError")
                     ELSE IF bad THEN Throw(X1, "InterpreterError")
                     ELSE [X1 EXCEPT !.locals[index.val.lo + 1] = X1.stack[Len(X1.stack)]]
                [] opcode = OP_GLOBAL_GET ->
                     IF WLeq(WOfNat(Len(X1.globals)), index.val) THEN Throw(X1, "InterpreterError")
                     ELSE [X1 EXCEPT !.stack = push(@, X1.globals[index.val.lo + 1])]
                [] opcode = OP_GLOBAL_SET ->
                     LET p == pop(X1.stack)
                     IN  IF p.exc # "none" THEN Throw(X1, p.exc)
                         ELSE setGlobal([X1 EXCEPT !.stack = p.stack], M, index.val, p.val)
                [] OTHER -> Throw(X1, "InterpreterError")

\* Interpreter::readMemArg(): [exc, align, offset, pc]
readMemArg(code, pc) ==
    LET align == readVarUint32(code, pc)
    IN  IF align.exc # "none" THEN [exc |-> align.exc, pc |-> align.pc]
        ELSE LET offset == readVarUint32(code, align.pc)
             IN  IF offset.exc # "none" THEN [exc |-> offset.exc, pc |-> offset.pc]
                 ELSE [exc |-> "none", align |-> align.val, offset |-> offset.val,
                       pc |-> offset.pc]

\* Interpreter::effectiveAddress(base, offset): [exc, addr]
effectiveAddress(base, offset) ==
    LET addr == WAdd(base, offset)
    IN  IF WLess(UINT32_MAX, addr) THEN [exc |-> "Trap"]
        ELSE [exc |-> "none", addr |-> addr]

\* Interpreter::executeMemory(opcode) for memory.size, memory.grow, i32.load
\* and i32.store; le is the byte order of the host
executeMemory(X, opcode, le) ==
    IF X.memory = NoMemory THEN Throw(X, "InterpreterError")
    ELSE IF opcode = OP_MEMORY_SIZE
    THEN LET reserved == readByte(X.code, X.pc)
         IN  IF reserved.exc # "none" THEN Throw(X, reserved.exc)
             ELSE [X EXCEPT !.pc = reserved.pc,
                            !.stack = push(@, makeI32(I32OfW(WOfNat(MemSize(X.memory)))))]
    ELSE IF opcode = OP_MEMORY_GROW
    THEN LET reserved == readByte(X.code, X.pc)
         IN  IF reserved.exc # "none" THEN Throw(X, reserved.exc)
             ELSE
               LET X1    == [X EXCEPT !.pc = reserved.pc]
                   delta == popI32(X1.stack)
               IN  IF delta.exc # "none" THEN Throw(X1, delta.exc)
                   ELSE LET result == grow(X1.memory, WOfI32(delta.val))
                        IN  [X1 EXCEPT !.memory = result.mem,
                                       !.stack = push(delta.stack, makeI32(result.ret))]
    ELSE
      LET memarg == readMemArg(X.code, X.pc)
      IN  IF memarg.exc # "none" THEN Throw([X EXCEPT !.pc = memarg.pc], memarg.exc)
          ELSE
            LET X1 == [X EXCEPT !.pc = memarg.pc]
            IN  CASE opcode = OP_I32_LOAD ->
                       LET base == popI32(X1.stack)
                       IN  IF base.exc # "none" THEN Throw(X1, base.exc)
                           ELSE
                             LET X2   == [X1 EXCEPT !.stack = base.stack]
                                 addr == effectiveAddress(WOfI32(base.val), memarg.offset)
                             IN  IF addr.exc # "none" THEN Throw(X2, addr.exc)
                                 ELSE
                                   LET loaded == load(X2.memory, 4, addr.addr)
                                   IN  IF loaded.exc # "none" THEN Throw(X2, loaded.exc)
                                       ELSE [X2 EXCEPT !.stack =
                                               push(@, makeI32(I32OfRep(loaded.rep, le)))]
                  [] opcode = OP_I32_STORE ->
                       LET value == popI32(X1.stack)
                       IN  IF value.exc # "none" THEN Throw(X1, value.exc)
                           ELSE
                             LET base == popI32(value.stack)
                             IN  IF base.exc # "none"
                                 THEN Throw([X1 EXCEPT !.stack = value.stack], base.exc)
                                 ELSE
                                   LET X2   == [X1 EXCEPT !.stack = base.stack]
                                       addr == effectiveAddress(WOfI32(base.val), memarg.offset)
                                   IN  IF addr.exc # "none" THEN Throw(X2, addr.exc)
                                       ELSE
                                         LET stored == store(X2.memory, addr.addr,
                                                             RepOfI32(value.val, le))
                                         IN  IF stored.exc # "none" THEN Throw(X2, stored.exc)
                                             ELSE [X2 EXCEPT !.memory = stored.mem]
                  [] OTHER -> Throw(X1, "InterpreterError")

makeF32(v) == [type |-> "f32", value |-> v]
makeF64(v) == [type |-> "f64", value |-> v]

\* Interpreter::readF32() / readF64(): the `size` bytes memcpy'd into the
\* float, which is kept as its object representation: [exc, val, pc]
readFloat(code, pc, size) ==
    IF pc + size > Len(code) THEN [exc |-> "InterpreterError", pc |-> pc]
    ELSE [exc |-> "none", val |-> SubSeq(code, pc + 1, pc + size), pc |-> pc + size]

readF32(code, pc) == readFloat(code, pc, 4)
readF64(code, pc) == readFloat(code, pc, 8)

\* Interpreter::executeNumericConst(opcode)
executeNumericConst(X, opcode) ==
    CASE opcode = OP_I32_CONST ->
           LET v == readVarInt32(X.code, X.pc)
           IN  IF v.exc # "none" THEN Throw([X EXCEPT !.pc = v.pc], v.exc)
               ELSE [X EXCEPT !.pc = v.pc, !.stack = push(@, makeI32(v.val))]
      [] opcode = OP_I64_CONST ->
           LET v == readVarInt64(X.code, X.pc)
           IN  IF v.exc # "none" THEN Throw([X EXCEPT !.pc = v.pc], v.exc)
               ELSE [X EXCEPT !.pc = v.pc, !.stack = push(@, makeI64(v.val))]
      [] opcode = OP_F32_CONST ->
           LET v == readF32(X.code, X.pc)
           IN  IF v.exc # "none" THEN Throw([X EXCEPT !.pc = v.pc], v.exc)
               ELSE [X EXCEPT !.pc = v.pc, !.stack = push(@, makeF32(v.val))]
      [] opcode = OP_F64_CONST ->
           LET v == readF64(X.code, X.pc)
           IN  IF v.exc # "none" THEN Throw([X EXCEPT !.pc = v.pc], v.exc)
               ELSE [X EXCEPT !.pc = v.pc, !.stack = push(@, makeF64(v.val))]
      [] OTHER -> Throw(X, "InterpreterError")

-----------------------------------------------------------------------------
(* Float to integer truncations: src/src/interpreter.cpp 1754-1832.  A      *)
(* float or double is kept as its object representation, the bytes memcpy   *)
(* gave it; its value is read off the IEEE 754 fields of those bytes.       *)

\* the truncation cases of executeConversion by opcode: the type popped, the
\* type pushed, and whether the cast is to the signed integer type
Truncations ==
    [opcode \in {168, 169, 170, 171, 174, 175, 176, 177} |->
        [src    |-> IF opcode \in {168, 169, 174, 175} THEN "f32" ELSE "f64",
         dst    |-> IF opcode < 174 THEN "i32" ELSE "i64",
         signed |-> opcode % 2 = 0]]

\* the bits of the value, least significant first
FloatBits(rep, le) ==
    LET bytes == IF le THEN rep ELSE [k \in 1..Len(rep) |-> rep[Len(rep) + 1 - k]]
    IN  [i \in 1..(8 * Len(rep)) |-> (bytes[((i - 1) \div 8) + 1] \div Pow2((i - 1) % 8)) % 2]

FractionBits(bits) == IF Len(bits) = 32 THEN 23 ELSE 52
ExponentBias(bits) == IF Len(bits) = 32 THEN 127 ELSE 1023
ExponentMax(bits) == IF Len(bits) = 32 THEN 255 ELSE 2047
BiasedExponent(bits) == BitsToNat(SubSeq(bits, FractionBits(bits) + 1, Len(bits) - 1))

\* std::isnan(a), std::isinf(a), a < 0.0
isnan(bits) ==
    /\ BiasedExponent(bits) = ExponentMax(bits)
    /\ \E i \in 1..FractionBits(bits) : bits[i] = 1
isinf(bits) ==
    /\ BiasedExponent(bits) = ExponentMax(bits)
    /\ \A i \in 1..FractionBits(bits) : bits[i] = 0
LessThanZero(bits) ==
    /\ bits[Len(bits)] = 1
    /\ ~isnan(bits)
    /\ \E i \in 1..(Len(bits) - 1) : bits[i] = 1

\* |std::trunc(a)| of a finite a: its bits, least significant first, the last
\* one set (<<>> for zero)
TruncMagnitude(bits) ==
    LET p == FractionBits(bits)
        e == BiasedExponent(bits) - ExponentBias(bits)
        m == Append(SubSeq(bits, 1, p), 1)
    IN  IF BiasedExponent(bits) = 0 \/ e < 0 THEN <<>>
        ELSE IF e <= p THEN SubSeq(m, p + 1 - e, p + 1)
        ELSE BitsZero(e - p) \o m

\* what a build makes of static_cast<integer>(x) for an x the integer type
\* cannot hold, which the language leaves undefined: the "integer indefinite"
\* 100..0 of the x86 conversions, the nearest bound of the type, or the low
\* bits of x
ConversionOutcomes == {"indefinite", "saturated", "wrapped"}

\* static_cast to the integer type of `width` bits of the integral value of
\* magnitude mag: its limbs in two's complement
CastToInteger(mag, negative, width, signed, ub) ==
    LET fits    == IF signed
                   THEN \/ Len(mag) < width
                        \/ negative /\ Len(mag) = width /\ \A i \in 1..(width - 1) : mag[i] = 0
                   ELSE Len(mag) <= width /\ (~negative \/ mag = <<>>)
        low     == BitsToLimbs(SubSeq(mag \o BitsZero(width), 1, width))
        wrapped == IF negative THEN LimbsNeg(low) ELSE low
        n       == width \div 16
    IN  IF fits \/ ub = "wrapped" THEN wrapped
        ELSE IF ub = "indefinite" THEN LimbsMin(n)
        ELSE IF ~signed THEN (IF negative THEN LimbsZero(n) ELSE LimbsOnes(n))
        ELSE IF negative THEN LimbsMin(n)
        ELSE LimbsNot(LimbsMin(n))

\* Interpreter::executeConversion(opcode) for the truncations
executeConversion(X, opcode, le, ub) ==
    IF opcode \notin DOMAIN Truncations THEN Throw(X, "InterpreterError")
    ELSE
      LET t == Truncations[opcode]
          a == popTyped(X.stack, t.src)
      IN  IF a.exc # "none" THEN Throw(X, a.exc)
          ELSE
            LET X1   == [X EXCEPT !.stack = a.stack]
                bits == FloatBits(a.val, le)
            IN  IF isnan(bits) \/ isinf(bits) \/ (~t.signed /\ LessThanZero(bits))
                THEN Throw(X1, "Trap")
                ELSE [X1 EXCEPT !.stack =
                        push(@, [type  |-> t.dst,
                                 value |-> LimbsInt(t.dst,
                                             CastToInteger(TruncMagnitude(bits),
                                                           bits[Len(bits)] = 1,
                                                           IF t.dst = "i32" THEN 32 ELSE 64,
                                                           t.signed, ub))])]

\* what the build can make of the signed remainder INT_MIN % -1, which the
\* language leaves undefined: the division instruction of the host faults, or
\* the remainder 0 comes out
RemOverflowOutcomes == {"SIGFPE", "zero"}

\* b = pop, a = pop of one integer type: [exc, a, b, stack]
PopOperands(stack, type) ==
    LET b == popTyped(stack, type)
    IN  IF b.exc # "none" THEN [exc |-> b.exc, stack |-> b.stack]
        ELSE LET a == popTyped(b.stack, type)
             IN  IF a.exc # "none" THEN [exc |-> a.exc, stack |-> b.stack]
                 ELSE [exc |-> "none", a |-> IntLimbs(type, a.val),
                       b |-> IntLimbs(type, b.val), stack |-> a.stack]

\* the division and remainder cases of Interpreter::executeNumeric: operands
\* of `type`, signed or unsigned, quotient or remainder; ub is the outcome the
\* build gives the undefined remainder
DivRem(X, type, signed, rem, ub) ==
    LET o == PopOperands(X.stack, type)
    IN  IF o.exc # "none" THEN Throw([X EXCEPT !.stack = o.stack], o.exc)
        ELSE
          LET X1 == [X EXCEPT !.stack = o.stack]
              n  == Len(o.a)
              overflow == o.a = LimbsMin(n) /\ o.b = LimbsOnes(n)
              pushed(l) == [X1 EXCEPT !.stack = push(@, [type |-> type, value |-> LimbsInt(type, l)])]
          IN  IF o.b = LimbsZero(n) THEN Throw(X1, "Trap")
              ELSE IF signed /\ ~rem /\ overflow THEN Throw(X1, "Trap")
              ELSE IF signed /\ rem /\ overflow
                   THEN (IF ub = "SIGFPE" THEN Throw(X1, "SIGFPE") ELSE pushed(LimbsZero(n)))
              ELSE IF signed
                   THEN pushed(IF rem THEN DivS(o.a, o.b).r ELSE DivS(o.a, o.b).q)
              ELSE pushed(IF rem THEN DivU(o.a, o.b).r ELSE DivU(o.a, o.b).q)

\* the opcodes of Interpreter::executeNumeric this model covers
NumericModelled ==
    {OP_I32_ADD, OP_I32_SUB, OP_I32_DIV_S, OP_I32_DIV_U, OP_I32_REM_S, OP_I32_REM_U,
     OP_I64_DIV_S, OP_I64_DIV_U, OP_I64_REM_S, OP_I64_REM_U}

\* what a build makes of a + b or a - b on int32_t when the exact result does
\* not fit, which the language leaves undefined: the two's complement result,
\* or the abort of a build that traps on signed overflow
SignedOverflowOutcomes == {"wrap", "SIGABRT"}

\* a + b (or a - b) of two int32_t does not fit in int32_t
AddOverflows(a, b, sum) == IsNegative(a) = IsNegative(b) /\ IsNegative(sum) # IsNegative(a)
SubOverflows(a, b, diff) == IsNegative(a) # IsNegative(b) /\ IsNegative(diff) # IsNegative(a)

\* the I32_ADD and I32_SUB cases of Interpreter::executeNumeric; ov is the
\* outcome the build gives a signed overflow
AddSub(X, opcode, ov) ==
    LET o == PopOperands(X.stack, "i32")
    IN  IF o.exc # "none" THEN Throw([X EXCEPT !.stack = o.stack], o.exc)
        ELSE
          LET r == IF opcode = OP_I32_ADD THEN LimbsAdd(o.a, o.b) ELSE LimbsSub(o.a, o.b)
              overflow == IF opcode = OP_I32_ADD THEN AddOverflows(o.a, o.b, r)
                          ELSE SubOverflows(o.a, o.b, r)
          IN  IF overflow /\ ov = "SIGABRT" THEN Throw([X EXCEPT !.stack = o.stack], "SIGABRT")
              ELSE [X EXCEPT !.stack = push(o.stack, makeI32(LimbsToI32(r)))]

\* Interpreter::executeNumeric(opcode) for the opcodes of NumericModelled
executeNumeric(X, opcode, ub, ov) ==
    CASE opcode \in {OP_I32_ADD, OP_I32_SUB} -> AddSub(X, opcode, ov)
      [] opcode = OP_I32_DIV_S -> DivRem(X, "i32", TRUE, FALSE, ub)
      [] opcode = OP_I32_DIV_U -> DivRem(X, "i32", FALSE, FALSE, ub)
      [] opcode = OP_I32_REM_S -> DivRem(X, "i32", TRUE, TRUE, ub)
      [] opcode = OP_I32_REM_U -> DivRem(X, "i32", FALSE, TRUE, ub)
      [] opcode = OP_I64_DIV_S -> DivRem(X, "i64", TRUE, FALSE, ub)
      [] opcode = OP_I64_DIV_U -> DivRem(X, "i64", FALSE, FALSE, ub)
      [] opcode = OP_I64_REM_S -> DivRem(X, "i64", TRUE, TRUE, ub)
      [] opcode = OP_I64_REM_U -> DivRem(X, "i64", FALSE, TRUE, ub)
      [] OTHER -> Throw(X, "InterpreterError")

-----------------------------------------------------------------------------
(* The modules instantiated and the calls made: the inputs of Spec *)

MaxPrefix == 3          \* instructions ahead of the branch in a generated body
MaxStmts == 2           \* memory statements in a generated body

NoParams == [params |-> <<>>, results |-> <<>>]

\* a module of local functions over one memory (or none)
ModuleOf(types, function_types, bodies, memories) ==
    [types          |-> types,
     function_types |-> function_types,
     functions      |-> [i \in 1..Len(bodies) |->
                           [type_index |-> function_types[i], locals |-> <<>>,
                            body |-> bodies[i]]],
     imports        |-> <<>>,
     exports        |-> <<[name |-> "main", kind |-> "FUNCTION", index |-> 0]>>,
     memories       |-> memories,
     globals        |-> <<>>,
     tables         |-> <<>>,
     data_segments  |-> <<>>,
     element_segments |-> <<>>,
     has_start_function |-> FALSE,
     start_function_index |-> 0]

RECURSIVE Concat(_)
Concat(seqs) == IF seqs = <<>> THEN <<>> ELSE Head(seqs) \o Concat(Tail(seqs))

\* all sequences over S of length 0..n
RECURSIVE SeqsUpTo(_, _)
SeqsUpTo(S, n) ==
    IF n = 0 THEN {<<>>}
    ELSE LET shorter == SeqsUpTo(S, n - 1)
         IN  shorter \cup {Append(q, x) : q \in {r \in shorter : Len(r) = n - 1}, x \in S}

\* instructions ahead of a branch: constants of both integer types, drop, and
\* the three ways to open a label
PrefixItems ==
    {<<OP_I32_CONST, 1>>, <<OP_I32_CONST, 2>>, <<OP_I64_CONST, 5>>, <<OP_DROP>>,
     <<OP_BLOCK, VOID_TYPE>>, <<OP_BLOCK, 127>>, <<OP_LOOP, VOID_TYPE>>}

\* br, br_if (taken and not) and br_table (selecting an entry and the default)
BranchForms ==
    {<<OP_BR, 0>>, <<OP_BR, 1>>,
     <<OP_I32_CONST, 1, OP_BR_IF, 0>>, <<OP_I32_CONST, 0, OP_BR_IF, 0>>,
     <<OP_I32_CONST, 1, OP_BR_IF, 1>>,
     <<OP_I32_CONST, 0, OP_BR_TABLE, 1, 1, 0>>, <<OP_I32_CONST, 5, OP_BR_TABLE, 1, 1, 0>>,
     <<OP_I32_CONST, 127, OP_BR_TABLE, 1, 1, 0>>}

Opens(prefix) ==
    Cardinality({i \in 1..Len(prefix) : Head(prefix[i]) \in {OP_BLOCK, OP_LOOP}})

\* prefix, branch, then the end of every construct opened and of the function
BranchBodies(max_prefix) ==
    {Concat(prefix) \o form \o [i \in 1..(Opens(prefix) + 1) |-> OP_END] :
        prefix \in SeqsUpTo(PrefixItems, max_prefix), form \in BranchForms}

BranchModules(max_prefix) ==
    {ModuleOf(<<NoParams>>, <<0>>, <<body>>, <<>>) : body \in BranchBodies(max_prefix)}

\* one binary integer instruction applied to the two arguments of the call
BinaryModules ==
    {ModuleOf(<<[params |-> <<"i32", "i32">>, results |-> <<"i32">>]>>, <<0>>,
              <<<<OP_LOCAL_GET, 0, OP_LOCAL_GET, 1, op, OP_END>>>>, <<>>) :
        op \in {OP_I32_ADD, OP_I32_SUB, OP_I32_DIV_S, OP_I32_DIV_U, OP_I32_REM_S, OP_I32_REM_U}}
    \cup
    {ModuleOf(<<[params |-> <<"i64", "i64">>, results |-> <<"i64">>]>>, <<0>>,
              <<<<OP_LOCAL_GET, 0, OP_LOCAL_GET, 1, op, OP_END>>>>, <<>>) :
        op \in {OP_I64_DIV_S, OP_I64_DIV_U, OP_I64_REM_S, OP_I64_REM_U}}

\* i32.const operands of the memory statements: 0, 65532, 65533 and -1
AddrZero == <<0>>
AddrLastWord == <<252, 255, 3>>
AddrPastLastWord == <<253, 255, 3>>
AddrTop == <<127>>

\* (address operand, memarg offset) of the accesses tried
Accesses ==
    {<<AddrZero, 0>>, <<AddrLastWord, 0>>, <<AddrLastWord, 1>>, <<AddrPastLastWord, 0>>,
     <<AddrTop, 0>>, <<AddrTop, 1>>}

MemoryStmts ==
    {<<OP_I32_CONST>> \o a[1] \o <<OP_I32_LOAD, 2, a[2], OP_DROP>> : a \in Accesses}
    \cup {<<OP_I32_CONST>> \o a[1] \o <<OP_I32_CONST, 42, OP_I32_STORE, 2, a[2]>> : a \in Accesses}
    \cup {<<OP_I32_CONST, 1, OP_MEMORY_GROW, 0, OP_DROP>>, <<OP_MEMORY_SIZE, 0, OP_DROP>>}

MemoryBodies(max_stmts) ==
    {Concat(stmts) \o <<OP_END>> : stmts \in SeqsUpTo(MemoryStmts, max_stmts) \ {<<>>}}

MemoryModules(max_stmts) ==
    {ModuleOf(<<NoParams>>, <<0>>, <<body>>, <<[min |-> mn, max |-> 0, has_max |-> FALSE]>>) :
        body \in MemoryBodies(max_stmts), mn \in {0, 1}}
    \cup {ModuleOf(<<NoParams>>, <<0>>, <<<<OP_MEMORY_SIZE, 0, OP_DROP, OP_END>>>>, <<>>)}

\* calls between functions: direct self-recursion, a call that returns, a call
\* of an import that is no host function, a call of a missing function
CallModules ==
    {ModuleOf(<<NoParams>>, <<0>>, <<<<OP_CALL, 0, OP_END>>>>, <<>>),
     ModuleOf(<<NoParams>>, <<0, 0>>,
              <<<<OP_BLOCK, VOID_TYPE, OP_CALL, 1, OP_END, OP_END>>,
                <<OP_I32_CONST, 1, OP_DROP, OP_END>>>>, <<>>),
     [ModuleOf(<<NoParams>>, <<0>>, <<<<OP_CALL, 0, OP_END>>>>, <<>>)
         EXCEPT !.imports = <<[module_name |-> "env", field_name |-> "f", kind |-> "FUNCTION"]>>],
     ModuleOf(<<NoParams>>, <<0>>, <<<<OP_CALL, 7, OP_END>>>>, <<>>),
     ModuleOf(<<NoParams>>, <<3>>, <<<<OP_END>>>>, <<>>)}

\* the remaining instructions of the handlers, one body each
OtherBodies ==
    {<<OP_NOP, OP_RETURN, OP_UNREACHABLE, OP_END>>,
     <<OP_UNREACHABLE, OP_END>>,
     <<OP_I32_CONST, 1, OP_IF, VOID_TYPE, OP_I32_CONST, 1, OP_DROP, OP_ELSE,
       OP_I32_CONST, 2, OP_DROP, OP_END, OP_END>>,
     <<OP_I32_CONST, 0, OP_IF, VOID_TYPE, OP_I32_CONST, 1, OP_DROP, OP_ELSE,
       OP_I32_CONST, 2, OP_DROP, OP_END, OP_END>>,
     <<OP_I32_CONST, 0, OP_IF, VOID_TYPE, OP_I32_CONST, 1, OP_DROP, OP_END, OP_END>>,
     <<OP_I32_CONST, 1, OP_I32_CONST, 2, OP_I32_CONST, 0, OP_SELECT, OP_LOCAL_SET, 0, OP_END>>,
     <<OP_I32_CONST, 1, OP_LOCAL_TEE, 0, OP_DROP, OP_LOCAL_GET, 0, OP_DROP, OP_END>>,
     <<OP_ELSE, OP_END>>,
     <<OP_BLOCK, VOID_TYPE>>,
     <<18, OP_END>>}

OtherModules ==
    {[ModuleOf(<<NoParams>>, <<0>>, <<body>>, <<>>)
         EXCEPT !.functions[1].locals = <<"i32">>] : body \in OtherBodies}

\* the module of src/tests/test_decoder.cpp: add, of type (i32, i32) -> i32,
\* with the body local.get 0; local.get 1; i32.add; end
AddModule ==
    [ModuleOf(<<[params |-> <<"i32", "i32">>, results |-> <<"i32">>]>>, <<0>>,
              <<<<OP_LOCAL_GET, 0, OP_LOCAL_GET, 1, OP_I32_ADD, OP_END>>>>, <<>>)
        EXCEPT !.exports = <<[name |-> "add", kind |-> "FUNCTION", index |-> 0]>>]

\* a module whose only export is its memory
MemoryExportModule ==
    [ModuleOf(<<NoParams>>, <<0>>, <<<<OP_END>>>>, <<[min |-> 1, max |-> 0, has_max |-> FALSE]>>)
        EXCEPT !.exports = <<[name |-> "main", kind |-> "MEMORY", index |-> 0]>>]

ValueTypes == {"i32", "i64", "f32", "f64"}

\* Global(type, is_mutable, init_expr)
Global(type, is_mutable, init_expr) ==
    [type |-> type, is_mutable |-> is_mutable, init_expr |-> init_expr]

I32Const16 == <<OP_I32_CONST, 16, OP_END>>
I64Const5 == <<OP_I64_CONST, 5, OP_END>>

\* init expressions: none, the constants of each type (16, -1, 128, 5, 1.0f,
\* 1.0), global.get 0, and two the evaluator rejects (nop; i32.const cut short)
GlobalInits ==
    {<<>>, I32Const16, <<OP_I32_CONST, 127, OP_END>>, <<OP_I32_CONST, 128, 1, OP_END>>,
     I64Const5, <<OP_F32_CONST, 0, 0, 128, 63, OP_END>>,
     <<OP_F64_CONST, 0, 0, 0, 0, 0, 0, 240, 63, OP_END>>,
     <<OP_GLOBAL_GET, 0, OP_END>>, <<OP_NOP, OP_END>>, <<OP_I32_CONST>>}

\* modules of one global, and of two with the second a global.get
GlobalModules ==
    {[EmptyModule EXCEPT !.globals = <<Global(type, FALSE, init_expr)>>] :
        type \in ValueTypes, init_expr \in GlobalInits}
    \cup
    {[EmptyModule EXCEPT !.globals = <<Global(first[1], FALSE, first[2]),
                                       Global(type, TRUE, <<OP_GLOBAL_GET, g, OP_END>>)>>] :
        first \in {<<"i32", I32Const16>>, <<"i64", I64Const5>>},
        type \in ValueTypes, g \in {0, 1}}

\* DataSegment with memory_index 0
DataSegment(offset_expr, data) ==
    [memory_index |-> 0, offset_expr |-> offset_expr, data |-> data]

\* offset expressions: i32.const 0, 16, 65535, 65536, -1 and INT32_MIN each
\* followed by end, i32.const 11 as Decoder::readInitExpression returns it,
\* and global.get 0
OffsetExprs ==
    {<<OP_I32_CONST, 0, OP_END>>, I32Const16, <<OP_I32_CONST, 255, 255, 3, OP_END>>,
     <<OP_I32_CONST, 128, 128, 4, OP_END>>, <<OP_I32_CONST, 127, OP_END>>,
     <<OP_I32_CONST, 128, 128, 128, 128, 120, OP_END>>, <<OP_I32_CONST, 11>>,
     <<OP_GLOBAL_GET, 0, OP_END>>}

DataSegments == {DataSegment(offset_expr, data) : offset_expr \in OffsetExprs, data \in SegmentData}

\* modules of one page of memory, the global 0 = 16 and up to two data
\* segments, and one of a data segment without a memory
DataModules ==
    {[EmptyModule EXCEPT !.memories = <<[min |-> 1, max |-> 0, has_max |-> FALSE]>>,
                         !.globals = <<Global("i32", FALSE, I32Const16)>>,
                         !.data_segments = segments] :
        segments \in {<<>>} \cup {<<a>> : a \in DataSegments}
                    \cup {<<a, b>> : a \in DataSegments, b \in DataSegments}}
    \cup {[EmptyModule EXCEPT !.data_segments = <<DataSegment(I32Const16, <<7>>)>>]}

TypeII == [params |-> <<"i32">>, results |-> <<"i32">>]
TypeIL == [params |-> <<"i32">>, results |-> <<"i64">>]
TypeLI == [params |-> <<"i64">>, results |-> <<"i32">>]

\* types 0..3 of the modules that call through the table
IndirectTypes == <<NoParams, TypeII, TypeIL, TypeLI>>

\* ElementSegment
ElementSegment(table_index, offset_expr, func_indices) ==
    [table_index |-> table_index, offset_expr |-> offset_expr, func_indices |-> func_indices]

I32Const0 == <<OP_I32_CONST, 0, OP_END>>
GlobalGet0 == <<OP_GLOBAL_GET, 0, OP_END>>

\* element sections: none; one segment at 0; two overlapping at 2 and 0; one
\* of another table; offsets global.get 0, i32.const -1, i32.const 128, an
\* i32.const of six LEB128 bytes; and a segment naming a function that is
\* not there
ElementSections ==
    {<<>>,
     <<ElementSegment(0, I32Const0, <<1, 2>>)>>,
     <<ElementSegment(0, <<OP_I32_CONST, 2, OP_END>>, <<1>>),
       ElementSegment(0, I32Const0, <<2, 1, 2>>)>>,
     <<ElementSegment(1, I32Const0, <<1>>),
       ElementSegment(0, <<OP_I32_CONST, 1, OP_END>>, <<2>>)>>,
     <<ElementSegment(0, GlobalGet0, <<1, 2>>)>>,
     <<ElementSegment(0, <<OP_I32_CONST, 127, OP_END>>, <<1, 2>>)>>,
     <<ElementSegment(0, <<OP_I32_CONST, 128, 1, OP_END>>, <<2>>)>>,
     <<ElementSegment(0, <<OP_I32_CONST, 128, 128, 128, 128, 128, 1, OP_END>>, <<1>>)>>,
     <<ElementSegment(0, I32Const0, <<9>>)>>}

\* the table indices pushed, as the LEB128 of an i32.const: -1, 0, 1, 2, 3, 5, 128
TableIndices == {<<127>>, <<0>>, <<1>>, <<2>>, <<3>>, <<5>>, <<128, 1>>}

\* i32.const 7; i32.const i; call_indirect t; end, and call_indirect with a
\* reserved byte of 1, on an empty stack, on an i64, and cut short
IndirectBodies ==
    {<<OP_I32_CONST, 7, OP_I32_CONST>> \o i \o <<OP_CALL_INDIRECT, t, 0, OP_END>> :
        i \in TableIndices, t \in 0..Len(IndirectTypes)}
    \cup {<<OP_I32_CONST, 0, OP_CALL_INDIRECT, 0, 1, OP_END>>,
          <<OP_CALL_INDIRECT, 0, 0, OP_END>>,
          <<OP_I64_CONST, 0, OP_CALL_INDIRECT, 0, 0, OP_END>>,
          <<OP_I32_CONST, 0, OP_CALL_INDIRECT, 0>>}

\* main, a function of type 0 and one of type 1, the global 0 = 2 and an
\* element section
IndirectModules ==
    {[ModuleOf(IndirectTypes, <<0, 0, 1>>,
               <<body, <<OP_NOP, OP_END>>, <<OP_LOCAL_GET, 0, OP_END>>>>, <<>>)
         EXCEPT !.globals = <<Global("i32", FALSE, <<OP_I32_CONST, 2, OP_END>>)>>,
                !.element_segments = elements] :
        body \in IndirectBodies, elements \in ElementSections}

\* the same with function 0 imported: the table holds the import and a local
\* function, both of type 0
ImportModules ==
    {[ModuleOf(IndirectTypes, <<0, 0>>,
               <<<<OP_I32_CONST>> \o i \o <<OP_CALL_INDIRECT, t, 0, OP_END>>,
                 <<OP_NOP, OP_END>>>>, <<>>)
         EXCEPT !.imports = <<[module_name |-> "env", field_name |-> "f",
                               kind |-> "FUNCTION", type_index |-> 0]>>,
                !.exports = <<[name |-> "main", kind |-> "FUNCTION", index |-> 1]>>,
                !.element_segments = <<ElementSegment(0, I32Const0, <<0, 2>>)>>] :
        i \in {<<0>>, <<1>>}, t \in {0, 1}}

\* a module whose start function is its function 0
StartModule ==
    [ModuleOf(<<NoParams>>, <<0>>, <<<<OP_NOP, OP_END>>>>, <<>>)
        EXCEPT !.has_start_function = TRUE]

\* a module of one page whose main reads the memory size and then meets an
\* opcode that is no instruction
MemorySizeModule ==
    ModuleOf(<<NoParams>>, <<0>>, <<<<OP_MEMORY_SIZE, 0, OP_DROP, 18, OP_END>>>>,
             <<[min |-> 1, max |-> 0, has_max |-> FALSE]>>)

\* the arms of the if constructs tried: nothing, a constant, the memory size,
\* a nested block
IfArms ==
    {<<OP_NOP>>, <<OP_I32_CONST, 1, OP_DROP>>, <<OP_MEMORY_SIZE, 0, OP_DROP>>,
     <<OP_BLOCK, VOID_TYPE, OP_NOP, OP_END>>}

\* if ... [else ...] end on the conditions 0, 1 and 2, with no result and with
\* an i32 result left by either arm
IfBodies ==
    {<<OP_I32_CONST, c, OP_IF, VOID_TYPE>> \o then \o else \o <<OP_END, OP_NOP, OP_END>> :
        c \in {0, 1, 2}, then \in IfArms,
        else \in {<<>>} \cup {<<OP_ELSE>> \o arm : arm \in IfArms}}
    \cup
    {<<OP_I32_CONST, c, OP_IF, 127>> \o then \o <<OP_ELSE>> \o else \o <<OP_END, OP_DROP, OP_END>> :
        c \in {0, 1},
        then \in {<<OP_I32_CONST, 1>>, <<OP_MEMORY_SIZE, 0>>},
        else \in {<<OP_I32_CONST, 2>>, <<OP_MEMORY_SIZE, 0>>}}

IfModules ==
    {ModuleOf(<<NoParams>>, <<0>>, <<body>>, <<[min |-> 1, max |-> 0, has_max |-> FALSE]>>) :
        body \in IfBodies}

\* a caller pushing three values and calling function 1, whose type takes
\* none, one or two of them and which declares locals of every type
ParamTypes == {<<>>, <<"i32">>, <<"i64", "i32">>}

ParamModules ==
    {[ModuleOf(<<NoParams, [params |-> params, results |-> <<>>]>>, <<0, 1>>,
               <<<<OP_I32_CONST, 1, OP_I64_CONST, 5, OP_I32_CONST, 2, OP_CALL, 1, OP_END>>,
                 <<OP_LOCAL_GET, 0, OP_DROP, OP_END>>>>, <<>>)
         EXCEPT !.functions[2].locals = locals] :
        params \in ParamTypes,
        locals \in {<<>>, <<"f64", "i32">>, <<"i64", "f32", "i32">>}}

\* imports: fd_write of WASI, another function of WASI, a function and a
\* global of another module
Import(module_name, field_name, kind) ==
    [module_name |-> module_name, field_name |-> field_name, kind |-> kind, type_index |-> 0]

ImportFdWrite == Import("wasi_snapshot_preview1", "fd_write", "FUNCTION")
ImportProcExit == Import("wasi_snapshot_preview1", "proc_exit", "FUNCTION")
ImportEnvF == Import("env", "f", "FUNCTION")
ImportEnvG == Import("env", "g", "GLOBAL")

\* the import sections tried, each with the function index main calls
HostCalls ==
    {<<<<ImportFdWrite>>, 0>>, <<<<ImportEnvF>>, 0>>, <<<<ImportProcExit>>, 0>>,
     <<<<ImportEnvG, ImportFdWrite>>, 0>>, <<<<ImportFdWrite, ImportEnvF>>, 0>>,
     <<<<ImportFdWrite, ImportEnvF>>, 1>>, <<<<ImportEnvF, ImportFdWrite>>, 1>>}

\* one page holding the iovec {ptr = 8, len = 3} at 0 and "abc" at 8; main
\* calls the import with fd = 1, iovs = 0, iovs_len = 1 (or 0), nwritten = 16
HostCallModules ==
    {[ModuleOf(<<NoParams>>, <<0>>,
               <<<<OP_I32_CONST, 1, OP_I32_CONST, 0, OP_I32_CONST, n, OP_I32_CONST, 16,
                   OP_CALL, h[2], OP_DROP, OP_END>>>>,
               <<[min |-> 1, max |-> 0, has_max |-> FALSE]>>)
         EXCEPT !.imports = h[1],
                !.exports = <<[name |-> "main", kind |-> "FUNCTION",
                               index |-> getImportedFunctionCount([imports |-> h[1]])]>>,
                !.data_segments = <<DataSegment(<<OP_I32_CONST, 0, OP_END>>,
                                                <<8, 0, 0, 0, 3, 0, 0, 0, 97, 98, 99>>)>>] :
        h \in HostCalls, n \in {0, 1}}

\* a mutable i32 global, an immutable one and an immutable i64 global; main
\* sets global k (3 is no global) to 7 and reads it back
GlobalSetModules ==
    {[ModuleOf(<<NoParams>>, <<0>>,
               <<<<OP_I32_CONST, 7, OP_GLOBAL_SET, k, OP_GLOBAL_GET, k, OP_DROP, OP_END>>>>, <<>>)
         EXCEPT !.globals = <<Global("i32", TRUE, I32Const16), Global("i32", FALSE, I32Const16),
                              Global("i64", FALSE, I64Const5)>>] :
        k \in 0..3}

\* floats and doubles by their bytes in the binary, each with what it is: NaN,
\* an infinity or a number, whether it is below zero, and the magnitude of
\* its integral part in five 16-bit limbs, least significant first
Sample(bytes, kind, neg, mag) == [rep |-> bytes, kind |-> kind, neg |-> neg, mag |-> mag]

F32Samples ==
    {Sample(<<0, 0, 0, 0>>, "num", FALSE, <<0, 0, 0, 0, 0>>),              \* 0.0
     Sample(<<0, 0, 0, 128>>, "num", FALSE, <<0, 0, 0, 0, 0>>),            \* -0.0
     Sample(<<0, 0, 192, 63>>, "num", FALSE, <<1, 0, 0, 0, 0>>),           \* 1.5
     Sample(<<0, 0, 192, 191>>, "num", TRUE, <<1, 0, 0, 0, 0>>),           \* -1.5
     Sample(<<0, 0, 0, 191>>, "num", TRUE, <<0, 0, 0, 0, 0>>),             \* -0.5
     Sample(<<255, 255, 255, 78>>, "num", FALSE, <<65408, 32767, 0, 0, 0>>),   \* 2^31 - 128
     Sample(<<0, 0, 0, 79>>, "num", FALSE, <<0, 32768, 0, 0, 0>>),         \* 2^31
     Sample(<<0, 0, 0, 207>>, "num", TRUE, <<0, 32768, 0, 0, 0>>),         \* -2^31
     Sample(<<255, 255, 127, 79>>, "num", FALSE, <<65280, 65535, 0, 0, 0>>),   \* 2^32 - 256
     Sample(<<0, 0, 128, 79>>, "num", FALSE, <<0, 0, 1, 0, 0>>),           \* 2^32
     Sample(<<0, 0, 0, 95>>, "num", FALSE, <<0, 0, 0, 32768, 0>>),         \* 2^63
     Sample(<<0, 0, 0, 223>>, "num", TRUE, <<0, 0, 0, 32768, 0>>),         \* -2^63
     Sample(<<0, 0, 128, 95>>, "num", FALSE, <<0, 0, 0, 0, 1>>),           \* 2^64
     Sample(<<0, 0, 192, 127>>, "nan", FALSE, <<0, 0, 0, 0, 0>>),
     Sample(<<0, 0, 128, 127>>, "inf", FALSE, <<0, 0, 0, 0, 0>>),
     Sample(<<0, 0, 128, 255>>, "inf", TRUE, <<0, 0, 0, 0, 0>>)}

F64Samples ==
    {Sample(<<0, 0, 0, 0, 0, 0, 248, 63>>, "num", FALSE, <<1, 0, 0, 0, 0>>),           \* 1.5
     Sample(<<0, 0, 0, 0, 0, 0, 224, 191>>, "num", TRUE, <<0, 0, 0, 0, 0>>),           \* -0.5
     Sample(<<0, 0, 224, 255, 255, 255, 223, 65>>, "num", FALSE,
            <<65535, 32767, 0, 0, 0>>),                                   \* 2147483647.5
     Sample(<<0, 0, 0, 0, 0, 0, 224, 65>>, "num", FALSE, <<0, 32768, 0, 0, 0>>),       \* 2^31
     Sample(<<0, 0, 16, 0, 0, 0, 224, 193>>, "num", TRUE, <<0, 32768, 0, 0, 0>>),      \* -2147483648.5
     Sample(<<0, 0, 32, 0, 0, 0, 224, 193>>, "num", TRUE, <<1, 32768, 0, 0, 0>>),      \* -2147483649.0
     Sample(<<0, 0, 240, 255, 255, 255, 239, 65>>, "num", FALSE,
            <<65535, 65535, 0, 0, 0>>),                                   \* 4294967295.5
     Sample(<<0, 0, 0, 0, 0, 0, 240, 65>>, "num", FALSE, <<0, 0, 1, 0, 0>>),           \* 2^32
     Sample(<<1, 0, 0, 0, 0, 0, 48, 67>>, "num", FALSE, <<1, 0, 0, 16, 0>>),           \* 2^52 + 1
     Sample(<<0, 0, 0, 0, 0, 0, 224, 67>>, "num", FALSE, <<0, 0, 0, 32768, 0>>),       \* 2^63
     Sample(<<0, 0, 0, 0, 0, 0, 240, 67>>, "num", FALSE, <<0, 0, 0, 0, 1>>),           \* 2^64
     Sample(<<0, 0, 0, 0, 0, 0, 248, 127>>, "nan", FALSE, <<0, 0, 0, 0, 0>>),
     Sample(<<0, 0, 0, 0, 0, 0, 240, 127>>, "inf", FALSE, <<0, 0, 0, 0, 0>>)}

\* a constant of the source type, the truncation, drop
TruncModules ==
    {ModuleOf(<<NoParams>>, <<0>>,
              <<<<IF Truncations[op].src = "f32" THEN OP_F32_CONST ELSE OP_F64_CONST>>
                \o a.rep \o <<op, OP_DROP, OP_END>>>>, <<>>) :
        op \in DOMAIN Truncations, a \in F32Samples \cup F64Samples}

\* what is on the stack when a typed pop comes: nothing, or one value of each
\* type
PopPrefixes ==
    {<<>>, <<OP_I32_CONST, 1>>, <<OP_I64_CONST, 5>>, <<OP_F32_CONST, 0, 0, 192, 63>>,
     <<OP_F64_CONST, 0, 0, 0, 0, 0, 0, 248, 63>>}

\* instructions that start with popI32, popI64, popF32 and popF64
PopInstructions ==
    {<<OP_IF, VOID_TYPE, OP_END>>, <<OP_I32_ADD, OP_DROP>>, <<OP_I64_DIV_U, OP_DROP>>,
     <<168, OP_DROP>>, <<170, OP_DROP>>}

PopModules ==
    {ModuleOf(<<NoParams>>, <<0>>, <<prefix \o instruction \o <<OP_END>>>>, <<>>) :
        prefix \in PopPrefixes, instruction \in PopInstructions}

\* memories of a start function's module: one page, and limits the Memory
\* constructor rejects
StartMemories ==
    {[min |-> 1, max |-> 0, has_max |-> FALSE], [min |-> 2, max |-> 1, has_max |-> TRUE]}

\* the init expression of its global 0: i32.const 16, and two the evaluator
\* rejects
StartGlobalInits == {I32Const16, <<OP_NOP, OP_END>>, <<OP_I32_CONST>>}

\* its data sections: none, one segment at 0, one at 16 followed by one that
\* does not fit, one that does not fit
StartDataSections ==
    {<<>>,
     <<DataSegment(I32Const0, <<8, 9>>)>>,
     <<DataSegment(I32Const16, <<7>>),
       DataSegment(<<OP_I32_CONST, 255, 255, 3, OP_END>>, <<8, 9>>)>>,
     <<DataSegment(<<OP_I32_CONST, 128, 128, 4, OP_END>>, <<7>>)>>}

\* modules whose start function reads global 0 and the memory at 0:
\* global.get 0; drop; i32.const 0; i32.load; drop; end
StartModules ==
    {[ModuleOf(<<NoParams>>, <<0>>,
               <<<<OP_GLOBAL_GET, 0, OP_DROP, OP_I32_CONST, 0, OP_I32_LOAD, 2, 0,
                   OP_DROP, OP_END>>>>, <<memory>>)
         EXCEPT !.has_start_function = TRUE,
                !.globals = <<Global("i32", FALSE, init_expr)>>,
                !.data_segments = segments] :
        memory \in StartMemories, init_expr \in StartGlobalInits,
        segments \in StartDataSections}

\* bodies that write what a later call reads: a global incremented, a word
\* of memory incremented, the memory grown, a global set ahead of a trap, a
\* store made by a callee ahead of an opcode that is no instruction, a global
\* set to a truncated float
PersistBodies ==
    {<<OP_GLOBAL_GET, 0, OP_I32_CONST, 1, OP_I32_ADD, OP_GLOBAL_SET, 0, OP_END>>,
     <<OP_I32_CONST, 0, OP_I32_CONST, 0, OP_I32_LOAD, 2, 0, OP_I32_CONST, 1, OP_I32_ADD,
       OP_I32_STORE, 2, 0, OP_END>>,
     <<OP_I32_CONST, 1, OP_MEMORY_GROW, 0, OP_DROP, OP_END>>,
     <<OP_I32_CONST, 7, OP_GLOBAL_SET, 0, OP_UNREACHABLE, OP_END>>,
     <<OP_CALL, 1, 18, OP_END>>,
     <<OP_F32_CONST, 0, 0, 192, 63, 168, OP_GLOBAL_SET, 0, OP_END>>}

\* main with one of these bodies and a second function that stores 9 at 0,
\* over a memory of one page that may grow to two and the global 0 = 16; and
\* the modules whose main calls fd_write
PersistModules ==
    {[ModuleOf(<<NoParams>>, <<0, 0>>,
               <<body, <<OP_I32_CONST, 0, OP_I32_CONST, 9, OP_I32_STORE, 2, 0, OP_END>>>>,
               <<[min |-> 1, max |-> 2, has_max |-> TRUE]>>)
         EXCEPT !.globals = <<Global("i32", TRUE, I32Const16)>>] :
        body \in PersistBodies}
    \cup {module \in HostCallModules : module.imports = <<ImportFdWrite>>}

\* what the blocks scanned hold: an instruction of each kind of immediate
\* (reserved byte, memarg, four and eight literal bytes, br_table's labels)
\* and, behind a br 0, a call_indirect of type 2 and i32.trunc_sat_f64_s
\* (0xFC 0x02); a nested block
ScanInners ==
    {<<OP_MEMORY_SIZE, 0, OP_DROP>>,
     <<OP_I32_CONST, 0, OP_MEMORY_GROW, 0, OP_DROP>>,
     <<OP_I32_CONST, 0, OP_I32_LOAD, 2, 0, OP_DROP>>,
     <<OP_F32_CONST, 11, 0, 0, 0, OP_DROP>>,
     <<OP_F64_CONST, 11, 0, 0, 0, 0, 0, 0, 0, OP_DROP>>,
     <<OP_I32_CONST, 0, OP_BR_TABLE, 1, 0, 0>>,
     <<OP_BR, 0, OP_I32_CONST, 0, OP_CALL_INDIRECT, 2, 0, OP_DROP>>,
     <<OP_BR, 0, OP_F64_CONST, 0, 0, 0, 0, 0, 0, 240, 63, OP_PREFIX_FC, 2, OP_DROP>>,
     <<OP_BLOCK, VOID_TYPE, OP_MEMORY_SIZE, 0, OP_DROP, OP_END>>}

\* a block that is left by a branch and holds a memory.size behind the
\* branch, inside another block
NestedScanBody ==
    <<OP_BLOCK, VOID_TYPE, OP_BLOCK, 127, OP_I32_CONST, 1, OP_BR, 0, OP_MEMORY_SIZE, 0, OP_END,
      OP_DROP, OP_END, OP_END>>

\* block ... end; nop; end, a block whose i32 result is the memory size or
\* what memory.grow returns, and the nested blocks
ScanBodies ==
    {<<OP_BLOCK, VOID_TYPE>> \o inner \o <<OP_END, OP_NOP, OP_END>> : inner \in ScanInners}
    \cup {<<OP_BLOCK, 127, OP_MEMORY_SIZE, 0, OP_END, OP_DROP, OP_END>>,
          <<OP_BLOCK, 127, OP_I32_CONST, 0, OP_MEMORY_GROW, 0, OP_END, OP_DROP, OP_END>>,
          NestedScanBody}

\* main over one page of memory, the types 0..3 and a table of one entry
ScanModules ==
    {[ModuleOf(IndirectTypes, <<0>>, <<body>>, <<[min |-> 1, max |-> 0, has_max |-> FALSE]>>)
         EXCEPT !.tables = <<[element_type |-> 112,
                              limits |-> [min |-> 1, max |-> 0, has_max |-> FALSE]]>>] :
        body \in ScanBodies}

\* types 0..2 of the modules of well-typed functions: [] -> [], [i32] -> []
\* and [] -> [i32]
FrameTypes ==
    <<NoParams, [params |-> <<"i32">>, results |-> <<>>], [params |-> <<>>, results |-> <<"i32">>]>>

\* function 1 calls itself once when its parameter is not 0; function 2 falls
\* through its end with its result; function 3 returns with an operand below
\* its result; function 4 branches out of two blocks with an operand below
\* its result; function 5 traps inside a block with operands on the stack
FrameCallees ==
    <<<<OP_LOCAL_GET, 0, OP_IF, VOID_TYPE, OP_I32_CONST, 0, OP_CALL, 1, OP_END, OP_END>>,
      <<OP_I32_CONST, 7, OP_END>>,
      <<OP_I32_CONST, 8, OP_I32_CONST, 9, OP_RETURN, OP_END>>,
      <<OP_BLOCK, 127, OP_I32_CONST, 4, OP_BLOCK, VOID_TYPE, OP_I32_CONST, 6, OP_BR, 1,
        OP_END, OP_END, OP_END>>,
      <<OP_I32_CONST, 1, OP_BLOCK, VOID_TYPE, OP_I32_CONST, 2, OP_UNREACHABLE, OP_END,
        OP_DROP, OP_END>>>>

\* main pushes 3 and calls one of them, directly, from inside a block, or
\* through slot 0 of the table, and drops what it holds
FrameMains ==
    {<<OP_I32_CONST, 3, OP_I32_CONST, 1, OP_CALL, 1, OP_DROP, OP_END>>,
     <<OP_I32_CONST, 3, OP_I32_CONST, 0, OP_CALL_INDIRECT, 2, 0, OP_DROP, OP_DROP, OP_END>>,
     <<OP_BLOCK, VOID_TYPE, OP_I32_CONST, 3, OP_CALL, 2, OP_DROP, OP_DROP, OP_END, OP_END>>}
    \cup {<<OP_I32_CONST, 3, OP_CALL, k, OP_DROP, OP_DROP, OP_END>> : k \in {3, 4}}

\* the modules of well-typed functions; function 1 declares an i64 local
FrameModules ==
    {[ModuleOf(FrameTypes, <<0, 1, 2, 2, 2, 0>>, <<main>> \o FrameCallees, <<>>)
         EXCEPT !.functions[2].locals = <<"i64">>,
                !.tables = <<[element_type |-> 112,
                              limits |-> [min |-> 1, max |-> 0, has_max |-> FALSE]]>>,
                !.element_segments = <<ElementSegment(0, I32Const0, <<2>>)>>] :
        main \in FrameMains}

\* the modules of Spec: generated bodies of at most max_prefix instructions
\* ahead of a branch and at most max_stmts memory statements
Modules(max_prefix, max_stmts) ==
    BranchModules(max_prefix) \cup BinaryModules \cup MemoryModules(max_stmts)
    \cup CallModules \cup OtherModules \cup TruncModules \cup {AddModule, MemoryExportModule}

\* the modules of SpecInstance: globals, data segments, element segments
InstanceModules ==
    GlobalModules \cup DataModules \cup IndirectModules \cup ImportModules
    \cup OtherModules \cup IfModules \cup ParamModules \cup HostCallModules
    \cup GlobalSetModules \cup TruncModules \cup PopModules \cup StartModules
    \cup ScanModules
    \cup {AddModule, StartModule, MemorySizeModule}

\* the names call() is given
ExportNames == {"add", "main", "missing"}

\* argument values of the calls
I32Operands == {INT32_MIN, -7, -1, 0, 1, 2, 7, 2147483647}
I64Operands == {INT64_MIN, I64OfInt(-7), I64OfInt(-1), I64OfInt(0), I64OfInt(1), I64OfInt(7)}

Operands(type) ==
    IF type = "i32" THEN {makeI32(v) : v \in I32Operands}
    ELSE {makeI64(v) : v \in I64Operands}

\* argument vectors matching a parameter list
RECURSIVE ArgsFor(_)
ArgsFor(params) ==
    IF params = <<>> THEN {<<>>}
    ELSE {<<v>> \o rest : v \in Operands(Head(params)), rest \in ArgsFor(Tail(params))}

-----------------------------------------------------------------------------
(* Spec: an instance executing calls, one instruction per step *)

\* Interpreter::initializeMemory(): [exc, memory]
initializeMemory(M) ==
    IF M.memories = <<>> THEN [exc |-> "none", memory |-> NoMemory]
    ELSE LET m == MemoryCtor(M.memories[1])
         IN  IF m.exc # "none" THEN [exc |-> m.exc, memory |-> NoMemory]
             ELSE [exc |-> "none", memory |-> m.mem]

\* the while loop of initializeGlobals over one init expression: [exc, value]
RECURSIVE EvalGlobalInit(_, _, _, _)
EvalGlobalInit(code, pc, value, globals) ==
    IF pc >= Len(code) THEN [exc |-> "none", value |-> value]
    ELSE
      LET opcode == ByteAt(code, pc)
          Failed(kind) == [exc |-> kind, value |-> value]
      IN  CASE opcode = OP_END -> [exc |-> "none", value |-> value]
            [] opcode = OP_I32_CONST ->
                 LET r == readVarInt32(code, pc + 1)
                 IN  IF r.exc # "none" THEN Failed(r.exc)
                     ELSE EvalGlobalInit(code, r.pc, makeI32(r.val), globals)
            [] opcode = OP_I64_CONST ->
                 LET r == readVarInt64(code, pc + 1)
                 IN  IF r.exc # "none" THEN Failed(r.exc)
                     ELSE EvalGlobalInit(code, r.pc, makeI64(r.val), globals)
            [] opcode = OP_F32_CONST ->
                 LET r == readF32(code, pc + 1)
                 IN  IF r.exc # "none" THEN Failed(r.exc)
                     ELSE EvalGlobalInit(code, r.pc, makeF32(r.val), globals)
            [] opcode = OP_F64_CONST ->
                 LET r == readF64(code, pc + 1)
                 IN  IF r.exc # "none" THEN Failed(r.exc)
                     ELSE EvalGlobalInit(code, r.pc, makeF64(r.val), globals)
            [] opcode = OP_GLOBAL_GET ->
                 LET r == readVarUint32(code, pc + 1)
                 IN  IF r.exc # "none" THEN Failed(r.exc)
                     ELSE IF WLeq(WOfNat(Len(globals)), r.val) THEN Failed("InterpreterError")
                     ELSE EvalGlobalInit(code, r.pc, globals[r.val.lo + 1], globals)
            [] OTHER -> Failed("InterpreterError")

\* the for loop of initializeGlobals from global i on: [exc, globals]
RECURSIVE initializeGlobalsFrom(_, _, _)
initializeGlobalsFrom(M, i, globals) ==
    IF i > Len(M.globals) THEN [exc |-> "none", globals |-> globals]
    ELSE LET global == M.globals[i]
             value  == [type |-> global.type, value |-> ZeroOf(global.type)]
             r      == IF global.init_expr = <<>> THEN [exc |-> "none", value |-> value]
                       ELSE EvalGlobalInit(global.init_expr, 0, value, globals)
         IN  IF r.exc # "none" THEN [exc |-> r.exc, globals |-> globals]
             ELSE initializeGlobalsFrom(M, i + 1, Append(globals, r.value))

\* Interpreter::initializeGlobals()
initializeGlobals(M, globals) == initializeGlobalsFrom(M, 1, globals)

\* the bit 0x40 of `byte` when initializeData tests it without having assigned it
IndeterminateBytes == {0, 64}

\* the while loop of initializeData over the LEB128 of an i32.const offset:
\* [value (bits), shift, byte]
RECURSIVE DataOffsetLoop(_, _, _, _, _, _)
DataOffsetLoop(expr, pos, value, shift, byte, ub) ==
    IF pos >= Len(expr) - 1 THEN [value |-> value, shift |-> shift, byte |-> byte]
    ELSE LET b   == expr[pos + 1]
             acc == BitsOr(value, GroupShifted(b, shift, 32, ub))
         IN  IF b < 128 THEN [value |-> acc, shift |-> shift, byte |-> b]
             ELSE DataOffsetLoop(expr, pos + 1, acc, shift + 7, b, ub)

\* the offset initializeData gives a segment: only i32.const is evaluated;
\* -(1 << (shift + 7)) has an undefined shift once shift + 7 reaches 32
DataOffset(expr, byte, ub) ==
    IF expr = <<>> \/ expr[1] # OP_I32_CONST THEN W(0, 0)
    ELSE LET r == DataOffsetLoop(expr, 1, BitsZero(32), 0, byte, ub)
             k == r.shift + 7
             v == IF r.shift < 32 /\ (r.byte \div 64) % 2 = 1
                  THEN IF k < 32 THEN SignExtend(r.value, k)
                       ELSE IF ub = "masked" THEN SignExtend(r.value, k % 32)
                       ELSE r.value
                  ELSE r.value
             l == BitsToLimbs(v)
         IN  W(l[2], l[1])

\* the for loop of initializeData from segment i on: [exc, memory]
RECURSIVE initializeDataFrom(_, _, _, _, _)
initializeDataFrom(M, i, memory, byte, ub) ==
    IF i > Len(M.data_segments) THEN [exc |-> "none", memory |-> memory]
    ELSE LET segment == M.data_segments[i]
             offset  == DataOffset(segment.offset_expr, byte, ub)
             r       == initialize(memory, offset, segment.data)
         IN  IF r.exc # "none" THEN [exc |-> r.exc, memory |-> memory]
             ELSE initializeDataFrom(M, i + 1, r.mem, byte, ub)

\* Interpreter::initializeData()
initializeData(M, memory, byte, ub) ==
    IF memory = NoMemory THEN [exc |-> "none", memory |-> memory]
    ELSE initializeDataFrom(M, 1, memory, byte, ub)

\* what instantiate leaves: d of initializeData with the globals
Instance(d, globals) == [exc |-> d.exc, memory |-> d.memory, globals |-> globals]

\* the start function invoked ahead of initializeData: the data segments are
\* not in memory yet
instantiateDataAfterStart(M, memory, g, byte, ub) ==
    [exc |-> g.exc, memory |-> memory, globals |-> g.globals]

\* the rest of instantiate once initializeGlobals has returned g
instantiateData(M, memory, g, byte, ub) ==
    IF g.exc # "none" THEN [exc |-> g.exc, memory |-> memory, globals |-> g.globals]
    ELSE Instance(initializeData(M, memory, byte, ub), g.globals)

\* the rest of instantiate once initializeMemory has returned m
instantiateGlobals(M, m, byte, ub) ==
    IF m.exc # "none" THEN [exc |-> m.exc, memory |-> m.memory, globals |-> <<>>]
    ELSE instantiateData(M, m.memory, initializeGlobals(M, <<>>), byte, ub)

\* Interpreter::instantiate(module) up to the start function:
\* [exc, memory, globals]; initializeTables and initializeElements do nothing
instantiate(M, byte, ub) == instantiateGlobals(M, initializeMemory(M), byte, ub)

\* an Interpreter after its constructor: no module, no memory
Init ==
    /\ module_ = EmptyModule
    /\ memory_ = NoMemory
    /\ host_le = TRUE
    /\ mem_op = [op |-> "none"]
    /\ mem_ops = 0
    /\ stack_ = <<>>
    /\ call_stack_ = <<>>
    /\ locals_ = <<>>
    /\ labels_ = <<>>
    /\ code_ = <<>>
    /\ pc_ = 0
    /\ native_ = <<>>
    /\ status = "new"
    /\ results = <<>>
    /\ last = NoInstr
    /\ globals_ = <<>>
    /\ calls = 0
    /\ DecIdle

\* the executor state as the record the handlers work on
Machine ==
    [stack |-> stack_, labels |-> labels_, locals |-> locals_, pc |-> pc_, code |-> code_,
     native |-> native_, memory |-> memory_, globals |-> globals_, exc |-> "none",
     br |-> NoBranch]

\* the executor state a handler leaves
Assign(X) ==
    /\ stack_' = X.stack
    /\ labels_' = X.labels
    /\ locals_' = X.locals
    /\ pc_' = X.pc
    /\ code_' = X.code
    /\ native_' = X.native
    /\ memory_' = X.memory
    /\ globals_' = X.globals

\* the variables after a handler, an exception ending the call
Commit(X) ==
    /\ Assign(X)
    /\ status' = (IF X.exc = "none" THEN "running" ELSE X.exc)
    /\ UNCHANGED <<module_, call_stack_, results, host_le, mem_op, mem_ops, decVars>>

\* while (pc_ < code_size_) executeInstruction();
\* the execute() in progress is the host call of an import, which has no
\* instruction loop
HostCall ==
    /\ native_ # <<>>
    /\ WLess(native_[Len(native_)].func_index, WOfNat(getImportedFunctionCount(module_)))

Running == status = "running" /\ ~HostCall /\ pc_ < Len(code_)

\* execute() is about to return
Returning == status = "running" /\ (HostCall \/ pc_ >= Len(code_))

\* Opcode opcode = static_cast<Opcode>(code_[pc_++]);
Opcode == ByteAt(code_, pc_)
Fetched == [Machine EXCEPT !.pc = pc_ + 1]

\* the instruction a step executes, with the state it started from
Executed(X) ==
    [opcode |-> Opcode, stack |-> stack_, labels |-> labels_, locals |-> locals_,
     pc |-> pc_, code |-> code_, depth |-> Len(native_), memory |-> memory_,
     globals |-> globals_, br |-> X.br]

\* the variables after the handler of one instruction
Step(X) == Commit(X) /\ last' = Executed(X) /\ UNCHANGED calls

\* the argument vectors tried for a function: those of its parameter types
ArgsOf(func_index) ==
    LET func_type == getFunctionType(module_, WOfNat(func_index))
    IN  ArgsFor(IF func_type = NullType THEN <<>> ELSE func_type.params)

\* callFunction with the globals set back to their initial values
callFunctionOnFreshGlobals(X, M, func_index, args) ==
    IF validateFunctionCall(M, func_index) THEN Throw(X, "InterpreterError")
    ELSE execute([X EXCEPT !.stack = @ \o args,
                           !.native = <<[func_index |-> func_index, host_stack |-> X.stack]>>,
                           !.globals = initializeGlobals(M, <<>>).globals],
                 M, func_index)

\* Interpreter::callFunction(func_index, args) up to the first instruction;
\* host_stack records the operand stack before the arguments were pushed
\* (history, no member of the interpreter)
callFunction(X, M, func_index, args) ==
    IF validateFunctionCall(M, func_index) THEN Throw(X, "InterpreterError")
    ELSE execute([X EXCEPT !.stack = @ \o args,
                           !.native = <<[func_index |-> func_index, host_stack |-> X.stack]>>],
                 M, func_index)

\* the start function of instantiate: callFunction(start_function_index, {})
startFunction(X, M) ==
    IF M.has_start_function THEN callFunction(X, M, WOfNat(M.start_function_index), <<>>)
    ELSE X

\* the variables after instantiate: I is what the initialisers left, Y the
\* executor state after them and the start function's entry
InstantiateCommit(module, I, Y) ==
    /\ module_' = module
    /\ Assign(Y)
    /\ status' = (IF Y.exc # "none" THEN Y.exc
                  ELSE IF module.has_start_function THEN "running"
                  ELSE "idle")

InstantiateWith(module, I) ==
    InstantiateCommit(module, I,
        IF I.exc # "none"
        THEN Throw([Machine EXCEPT !.memory = I.memory, !.globals = I.globals], I.exc)
        ELSE startFunction([Machine EXCEPT !.memory = I.memory, !.globals = I.globals], module))

\* Interpreter::instantiate(module) for a module of the set; a start function
\* begins its call
InstantiateOneOf(modules) ==
    /\ status = "new"
    /\ \E module \in modules, byte \in IndeterminateBytes, ub \in ShiftCountOutcomes :
         InstantiateWith(module, instantiate(module, byte, ub))
    /\ last' = NoInstr
    /\ calls' = 0
    /\ UNCHANGED <<call_stack_, results, host_le, mem_op, mem_ops, decVars>>

\* Interpreter::instantiate(module) for the modules of the execution claims
Instantiate == InstantiateOneOf(Modules(MaxPrefix, MaxStmts))

\* Interpreter::instantiate(module) for the modules of the instantiation claims
InstantiateInstance == InstantiateOneOf(InstanceModules)

\* the host may call: no call is in progress, instantiate has not failed,
\* and fewer than max_calls calls were made
HostMayCall(max_calls) ==
    /\ status \in {"new", "idle"} \/ (calls > 0 /\ status # "running")
    /\ calls < max_calls

\* Interpreter::callFunction(func_index, args) from the embedder
CallFunctionUpTo(max_calls) ==
    /\ HostMayCall(max_calls)
    /\ \E func_index \in 0..getTotalFunctionCount(module_) :
         \E args \in ArgsOf(func_index) :
           IF status = "new" THEN Commit(Throw(Machine, "InterpreterError"))
           ELSE Commit(callFunction(Machine, module_, WOfNat(func_index), args))
    /\ last' = NoInstr
    /\ calls' = calls + 1

\* Interpreter::call(function_name, args) up to the first instruction
CallUpTo(max_calls) ==
    /\ HostMayCall(max_calls)
    /\ \E function_name \in ExportNames :
         LET exp == findExport(module_, function_name)
         IN  IF status = "new" \/ exp = NullExport \/ exp.kind # "FUNCTION"
             THEN Commit(Throw(Machine, "InterpreterError"))
             ELSE \E args \in ArgsOf(exp.index) :
                    Commit(callFunction(Machine, module_, WOfNat(exp.index), args))
    /\ last' = NoInstr
    /\ calls' = calls + 1

\* one call on an instance
CallFunction == CallFunctionUpTo(1)

Call == CallUpTo(1)

ExecuteControlFlow ==
    /\ Running
    /\ Handler(Opcode) = "executeControlFlow"
    /\ \E ub \in ShiftCountOutcomes :
         Step(executeControlFlow(Fetched, Opcode, module_, ub))

ExecuteParametric ==
    /\ Running
    /\ Handler(Opcode) = "executeParametric"
    /\ Step(executeParametric(Fetched, Opcode))

ExecuteVariable ==
    /\ Running
    /\ Handler(Opcode) = "executeVariable"
    /\ Step(executeVariable(Fetched, Opcode, module_))

ExecuteMemory ==
    /\ Running
    /\ Handler(Opcode) = "executeMemory"
    /\ Opcode \in {OP_MEMORY_SIZE, OP_MEMORY_GROW, OP_I32_LOAD, OP_I32_STORE}
    /\ Step(executeMemory(Fetched, Opcode, host_le))

ExecuteNumericConst ==
    /\ Running
    /\ Handler(Opcode) = "executeNumericConst"
    /\ Step(executeNumericConst(Fetched, Opcode))

ExecuteConversion ==
    /\ Running
    /\ Handler(Opcode) = "executeConversion"
    /\ Opcode \in DOMAIN Truncations
    /\ \E ub \in ConversionOutcomes :
         Step(executeConversion(Fetched, Opcode, host_le, ub))

ExecuteNumeric ==
    /\ Running
    /\ Handler(Opcode) = "executeNumeric"
    /\ Opcode \in NumericModelled
    /\ \E ub \in RemOverflowOutcomes, ov \in SignedOverflowOutcomes :
         Step(executeNumeric(Fetched, Opcode, ub, ov))

\* the final else of Interpreter::executeInstruction
UnknownOpcode ==
    /\ Running
    /\ Handler(Opcode) = "unknown"
    /\ Step(Throw(Fetched, "InterpreterError"))

\* execute() called by a CALL returns: the CALL restores the caller's state
ExecuteReturns ==
    /\ Returning
    /\ Len(native_) > 1
    /\ LET saved == native_[Len(native_)]
       IN  /\ pc_' = saved.return_pc
           /\ code_' = saved.return_code
           /\ locals_' = saved.return_locals
           /\ labels_' = saved.return_labels
    /\ native_' = SubSeq(native_, 1, Len(native_) - 1)
    /\ last' = NoInstr
    /\ UNCHANGED <<memVars, decVars, module_, stack_, call_stack_, status, results, globals_,
                   calls>>

\* execute() called by callFunction returns: callFunction collects the results
CallFunctionReturns ==
    /\ Returning
    /\ Len(native_) = 1
    /\ LET func_type    == getFunctionType(module_, native_[1].func_index)
           result_count == IF func_type = NullType THEN 0 ELSE Len(func_type.results)
           r == PopResults(stack_, [i \in 1..result_count |-> DefaultValue], result_count)
       IN  /\ stack_' = r.stack
           /\ results' = (IF r.exc = "none" THEN r.results ELSE <<>>)
           /\ status' = (IF r.exc = "none" THEN "returned" ELSE r.exc)
    /\ native_' = <<>>
    /\ last' = NoInstr
    /\ UNCHANGED <<memVars, decVars, module_, call_stack_, locals_, labels_, code_, pc_, globals_,
                   calls>>

Next ==
    \/ Instantiate
    \/ Call
    \/ CallFunction
    \/ ExecuteControlFlow
    \/ ExecuteParametric
    \/ ExecuteVariable
    \/ ExecuteMemory
    \/ ExecuteNumericConst
    \/ ExecuteConversion
    \/ ExecuteNumeric
    \/ UnknownOpcode
    \/ ExecuteReturns
    \/ CallFunctionReturns

Spec == Init /\ [][Next]_vars

\* the steps of a call, whichever module was instantiated
Run ==
    \/ Call
    \/ CallFunction
    \/ ExecuteControlFlow
    \/ ExecuteParametric
    \/ ExecuteVariable
    \/ ExecuteMemory
    \/ ExecuteNumericConst
    \/ ExecuteConversion
    \/ ExecuteNumeric
    \/ UnknownOpcode
    \/ ExecuteReturns
    \/ CallFunctionReturns

NextInstance == InstantiateInstance \/ Run

SpecInstance == Init /\ [][NextInstance]_vars

\* calls the host makes on one instance
MaxCalls == 3

\* Interpreter::instantiate(module) for the modules called more than once
InstantiateCalls == InstantiateOneOf(PersistModules \cup FrameModules)

CallAgain == CallUpTo(MaxCalls)

CallFunctionAgain == CallFunctionUpTo(MaxCalls)

\* an instance and a host that calls it up to MaxCalls times, each call
\* starting when the one before has returned or thrown
NextCalls ==
    \/ InstantiateCalls
    \/ CallAgain
    \/ CallFunctionAgain
    \/ ExecuteControlFlow
    \/ ExecuteParametric
    \/ ExecuteVariable
    \/ ExecuteMemory
    \/ ExecuteNumericConst
    \/ ExecuteConversion
    \/ ExecuteNumeric
    \/ UnknownOpcode
    \/ ExecuteReturns
    \/ CallFunctionReturns

SpecCalls == Init /\ [][NextCalls]_vars

-----------------------------------------------------------------------------
(* Claims about the executor, checked under Spec *)

\* the number of execute() invocations in progress (or in progress when the
\* call ended in an exception)
Nesting == Len(native_)

\* C1: self-recursion through `call` ends in a Trap when the call nesting
\* reaches 1024 frames: the nesting never exceeds MAX_DEPTH, and the host stack
\* is never exhausted.
C1_CallNestingTrapsAtMaxDepth ==
    /\ Nesting <= MAX_DEPTH
    /\ status # "HostStackOverflow"

\* the last step took a branch: branch(d) ran with d below the number of labels
BranchTaken ==
    /\ last.opcode \in {OP_BR, OP_BR_IF, OP_BR_TABLE}
    /\ last.br.taken
    /\ WLess(last.br.depth, WOfNat(Len(last.br.labels)))

\* label[d] of the labels as they were when the branch was taken
BranchLabel == last.br.labels[Len(last.br.labels) - last.br.depth.lo]

\* the operand stack when the branch was taken (a br_if or br_table has popped
\* its operand by then)
BranchStack == last.br.stack

LandsOnLabel ==
    /\ Len(stack_) = BranchLabel.stack_height + BranchLabel.arity
    /\ pc_ = BranchLabel.target_pc

\* C2 as stated: after a branch to label[d] the operand-stack height is
\* label[d].stack_height + label[d].arity and pc is label[d].target_pc, for
\* every operand-stack content at the moment of the branch.
C2_BranchLandsOnLabel == BranchTaken => LandsOnLabel

\* C2 amended: the same, provided the operand stack holds at least
\* label[d].stack_height + label[d].arity values when the branch is taken.
C2_BranchLandsOnLabelGivenHeight ==
    (BranchTaken /\ Len(BranchStack) >= BranchLabel.stack_height + BranchLabel.arity)
        => LandsOnLabel

\* a br_table branching to a label of arity 1 from a stack that holds more
\* than the label keeps
C2_Witness ==
    /\ BranchTaken
    /\ last.opcode = OP_BR_TABLE
    /\ BranchLabel.arity = 1
    /\ Len(BranchStack) > BranchLabel.stack_height + 1
    /\ LandsOnLabel

\* C3: a branch to a label of arity 1 preserves the value on top of the operand
\* stack when the branch was taken (same tag, same payload) and discards every
\* operand between label.stack_height and that value.
C3_BranchPreservesTop ==
    (BranchTaken /\ BranchLabel.arity = 1 /\ Len(BranchStack) > BranchLabel.stack_height)
        => stack_ = Append(SubSeq(BranchStack, 1, BranchLabel.stack_height),
                           BranchStack[Len(BranchStack)])

\* the last step was an i32.load or i32.store that found its i32 operands on a
\* stack over an instantiated memory
MemoryAccess ==
    /\ last.opcode \in {OP_I32_LOAD, OP_I32_STORE}
    /\ last.memory # NoMemory
    /\ LET need == IF last.opcode = OP_I32_LOAD THEN 1 ELSE 2
       IN  /\ Len(last.stack) >= need
           /\ \A i \in 1..need : last.stack[Len(last.stack) - i + 1].type = "i32"

\* addr of that access: the address operand plus the offset of the memarg
AccessAddr ==
    LET base == IF last.opcode = OP_I32_LOAD THEN last.stack[Len(last.stack)].value
                ELSE last.stack[Len(last.stack) - 1].value
    IN  WAdd(WOfI32(base), readMemArg(code_, last.pc + 1).offset)

AccessOutOfBounds == WLess(last.memory.data_.size, WAdd(AccessAddr, W(0, 4)))

\* C9: a load or store whose addr + sizeof(T) exceeds the byte length of the
\* memory ends the call with the Trap error kind, and a failed store leaves
\* every memory byte unchanged.
C9_OutOfBoundsAccessTraps ==
    (MemoryAccess /\ AccessOutOfBounds) => (status = "Trap" /\ memory_ = last.memory)

\* the opcodes of the division and remainder instructions
DivisionOps ==
    {OP_I32_DIV_S, OP_I32_DIV_U, OP_I32_REM_S, OP_I32_REM_U,
     OP_I64_DIV_S, OP_I64_DIV_U, OP_I64_REM_S, OP_I64_REM_U}

DivisionType == IF last.opcode \in {OP_I32_DIV_S, OP_I32_DIV_U, OP_I32_REM_S, OP_I32_REM_U}
                THEN "i32" ELSE "i64"

\* the last step was a division or remainder that found both operands
Division ==
    /\ last.opcode \in DivisionOps
    /\ Len(last.stack) >= 2
    /\ last.stack[Len(last.stack)].type = DivisionType
    /\ last.stack[Len(last.stack) - 1].type = DivisionType

Dividend == last.stack[Len(last.stack) - 1].value
Divisor  == last.stack[Len(last.stack)].value

\* the operand pairs on which the instruction is specified to trap
DivisionMustTrap ==
    \/ Divisor = ZeroOf(DivisionType)
    \/ /\ last.opcode = OP_I32_DIV_S
       /\ Dividend = INT32_MIN
       /\ Divisor = -1
    \/ /\ last.opcode = OP_I64_DIV_S
       /\ Dividend = INT64_MIN
       /\ Divisor = I64OfInt(-1)

\* the instruction completed: it replaced its two operands by one result
DivisionCompleted ==
    /\ status = "running"
    /\ Len(stack_) = Len(last.stack) - 1
    /\ stack_[Len(stack_)].type = DivisionType
    /\ SubSeq(stack_, 1, Len(stack_) - 1) = SubSeq(last.stack, 1, Len(last.stack) - 2)

\* C10: div_s, div_u, rem_s and rem_u trap on divisor 0, div_s traps on
\* INT_MIN / -1, and for every other operand pair, INT_MIN rem_s -1 included,
\* the instruction completes and pushes a result.
C10_DivisionTrapsOnlyWhereSpecified ==
    Division => IF DivisionMustTrap THEN status = "Trap" ELSE DivisionCompleted

-----------------------------------------------------------------------------
(* Claims about exported functions, checked under Spec *)

\* (a + b) modulo 2^32 as the int32_t of that bit pattern, for int32_t a and b
SumMod32(a, b) ==
    LET lo == (a % 65536) + (b % 65536)
        hi == (((a \div 65536) % 65536) + ((b \div 65536) % 65536) + (lo \div 65536)) % 65536
    IN  (IF hi >= 32768 THEN hi - 65536 ELSE hi) * 65536 + (lo % 65536)

\* a call of add has entered the function with its two arguments and has ended
AddCalled ==
    /\ module_ = AddModule
    /\ Len(locals_) = 2
    /\ status \notin {"idle", "running"}

Instantiated == status = "idle"

\* the value of an offset expression: the immediate of i32.const, or the
\* value the global of global.get holds
OffsetValue(expr) ==
    IF expr[1] = OP_I32_CONST THEN WOfI32(readVarInt32(expr, 1).val)
    ELSE WOfI32(globals_[readVarUint32(expr, 1).val.lo + 1].value)

\* the segment's bytes fit in memory at the value of its offset expression
Fits(segment) ==
    WLeq(WAdd(OffsetValue(segment.offset_expr), W(0, Len(segment.data))), memory_.data_.size)

\* byte k of segment i is not overwritten by a later segment that fits
Survives(i, k) ==
    LET address == WAdd(OffsetValue(module_.data_segments[i].offset_expr), W(0, k - 1))
    IN  \A j \in (i + 1)..Len(module_.data_segments) :
          LET later == module_.data_segments[j]
          IN  ~(Fits(later) /\ InRange(address, OffsetValue(later.offset_expr), Len(later.data)))

\* C16: after instantiate, every data segment that fits in memory at the
\* value o of its offset expression (i32.const o, or global.get g with g
\* holding o) has its bytes at o .. o + len - 1, a later segment winning
\* where two overlap.
C16_DataSegmentsCopied ==
    (Instantiated /\ memory_ # NoMemory) =>
        \A i \in 1..Len(module_.data_segments) :
          LET segment == module_.data_segments[i]
          IN  Fits(segment) =>
                \A k \in 1..Len(segment.data) :
                  Survives(i, k) =>
                    VecAt(memory_.data_, WAdd(OffsetValue(segment.offset_expr), W(0, k - 1)))
                      = segment.data[k]

\* C17: after instantiate returns, the instance holds one value per declared
\* global, and each value's type tag is the declared type of its global.
C17_GlobalsHaveDeclaredType ==
    Instantiated =>
        /\ Len(globals_) = Len(module_.globals)
        /\ \A i \in 1..Len(globals_) : globals_[i].type = module_.globals[i].type

\* a call_indirect has just run with its immediates read and a table index
\* popped
IndirectCall ==
    /\ last.opcode = OP_CALL_INDIRECT
    /\ readVarUint32(last.code, last.pc + 1).exc = "none"
    /\ readByte(last.code, readVarUint32(last.code, last.pc + 1).pc).exc = "none"
    /\ readByte(last.code, readVarUint32(last.code, last.pc + 1).pc).val = 0
    /\ popI32(last.stack).exc = "none"

\* its type index t and the table index i it popped
IndirectType == readVarUint32(last.code, last.pc + 1).val
TableIndex == popI32(last.stack).val

\* every offset expression of table 0 is an i32.const of at most five LEB128
\* bytes or a global.get, followed by end
WellFormedOffsets ==
    \A n \in 1..Len(module_.element_segments) :
      LET expr == module_.element_segments[n].offset_expr
      IN  /\ expr[Len(expr)] = OP_END
          /\ \/ expr[1] = OP_GLOBAL_GET
             \/ expr[1] = OP_I32_CONST /\ Len(expr) <= 7

\* segment n is of table 0 and 0 <= i - offset < len(func_indices)
Covers(n, i) ==
    LET elem == module_.element_segments[n]
    IN  /\ elem.table_index = 0
        /\ WLess(WU32(WSub(WOfI32(i), OffsetValue(elem.offset_expr))),
                 WOfNat(Len(elem.func_indices)))

Covering(i) == {n \in 1..Len(module_.element_segments) : Covers(n, i)}

\* func_indices[i - offset] of the first segment that covers i
TableEntry(i) ==
    LET n    == CHOOSE n \in Covering(i) : \A m \in Covering(i) : n <= m
        elem == module_.element_segments[n]
    IN  elem.func_indices[WU32(WSub(WOfI32(i), OffsetValue(elem.offset_expr))).lo + 1]

\* the instruction called execute(func_index); no function was invoked
Invoked(func_index) ==
    /\ Len(native_) = last.depth + 1
    /\ native_[Len(native_)].func_index = WOfNat(func_index)
NothingInvoked == Len(native_) = last.depth

\* the signature of function f: of its import, or of its local function
SignatureOf(f) ==
    LET function_imports == SelectSeq(module_.imports, LAMBDA import : import.kind = "FUNCTION")
    IN  IF f < Len(function_imports) THEN module_.types[function_imports[f + 1].type_index + 1]
        ELSE module_.types[module_.function_types[f - Len(function_imports) + 1] + 1]

\* types[t] exists and is the signature of f
SignatureMatches(f) ==
    /\ IndirectType.hi = 0
    /\ IndirectType.lo < Len(module_.types)
    /\ SignatureOf(f) = module_.types[IndirectType.lo + 1]

\* C18: call_indirect with a popped table index that no element segment of
\* table 0 covers, or a negative one, raises a Trap and invokes no function.
C18_UndefinedElementTraps ==
    (IndirectCall /\ WellFormedOffsets /\ (TableIndex < 0 \/ Covering(TableIndex) = {})) =>
        status = "Trap" /\ NothingInvoked

\* the function the table slot resolves to, as the instruction resolves it
Resolved == ResolveElement(module_.element_segments, 1, WOfI32(TableIndex), "zero")

\* the instruction resolved the table index to a function of the module
ResolvesToFunction ==
    /\ IndirectCall /\ WellFormedOffsets /\ TableIndex >= 0
    /\ Resolved.found
    /\ Resolved.func_index.hi = 0
    /\ Resolved.func_index.lo < getTotalFunctionCount(module_)

\* C19: call_indirect invokes the function it resolved exactly when the
\* signature of that function is types[t]; otherwise it raises a Trap with
\* nothing invoked and the operands below the table index still on the stack.
C19_InvokesIffSignatureMatches ==
    ResolvesToFunction =>
        IF SignatureMatches(Resolved.func_index.lo)
        THEN Invoked(Resolved.func_index.lo)
        ELSE /\ status = "Trap"
             /\ NothingInvoked
             /\ stack_ = popI32(last.stack).stack

\* C20: call_indirect with a table index i >= 0 that a segment covers invokes
\* func_indices[i - offset] of the first covering segment of table 0 (a
\* local function whose signature matches), offset being the value of the
\* segment's offset expression, i32.const k or global.get g.
C20_InvokesFirstCoveringEntry ==
    (IndirectCall /\ WellFormedOffsets /\ TableIndex >= 0 /\ Covering(TableIndex) # {}
       /\ TableEntry(TableIndex) >= getImportedFunctionCount(module_)
       /\ TableEntry(TableIndex) < getTotalFunctionCount(module_)
       /\ SignatureMatches(TableEntry(TableIndex))) =>
        Invoked(TableEntry(TableIndex))

-----------------------------------------------------------------------------
(* The decoder: src/src/decoder.cpp.  A reader takes the buffer and the     *)
(* position and gives [exc, val, pos]; integers wider than 16 bits are bit  *)
(* sequences (least significant bit first) while they are assembled and     *)
(* limbs once returned.                                                    *)

\* DecoderError(message) thrown at `pos`: what() is the message behind the
\* prefix of the class, kept as the sequence of its parts
DecoderError(pos, message) ==
    [exc |-> "DecoderError", pos |-> pos, what |-> <<"Decoder error: ">> \o message]

\* Decoder::formatError(message): "At byte 0x<position_> (<position_>): "
\* ahead of the message
Decoder_formatError(position, message) == <<"At byte ", position>> \o message

\* Decoder::ensureBytes(count): TRUE when it throws
Decoder_ensureBytes(buf, pos, count) == pos + count > Len(buf)

\* the exception of ensureBytes
EndOfFile(pos) == DecoderError(pos, <<"Unexpected end of file">>)

\* Decoder::readByte()
Decoder_readByte(buf, pos) ==
    IF Decoder_ensureBytes(buf, pos, 1) THEN EndOfFile(pos)
    ELSE [exc |-> "none", val |-> buf[pos + 1], pos |-> pos + 1]

\* e once v has been evaluated: the assignment to an accumulator is carried
\* out in each iteration of a loop, not when the loop has ended
Strict(v, e) == IF v = v THEN e ELSE e

\* the loop of readVarUint32 / readVarUint64: `limit` is 35 or 70
RECURSIVE Decoder_readVarUnsigned(_, _, _, _, _, _)
Decoder_readVarUnsigned(buf, pos, result, shift, width, limit) ==
    LET b == Decoder_readByte(buf, pos)
    IN  IF b.exc # "none" THEN b
        ELSE LET acc == BitsOr(result, GroupShifted(b.val, shift, width, "zero"))
             IN  IF b.val < 128
                 THEN [exc |-> "none", val |-> Limbs(BitsToLimbs(acc)), pos |-> b.pos]
                 ELSE IF shift + 7 >= limit
                 THEN DecoderError(b.pos, Decoder_formatError(b.pos,
                          <<"Invalid LEB128 unsigned encoding (too many bytes)">>))
                 ELSE Strict(acc, Decoder_readVarUnsigned(buf, b.pos, acc, shift + 7,
                                                          width, limit))

\* Decoder::readVarUint32()
Decoder_readVarUint32(buf, pos) == Decoder_readVarUnsigned(buf, pos, BitsZero(32), 0, 32, 35)

\* Decoder::readVarUint64()
Decoder_readVarUint64(buf, pos) == Decoder_readVarUnsigned(buf, pos, BitsZero(64), 0, 64, 70)

\* the loop and the sign extension of readVarInt32 / readVarInt64
RECURSIVE Decoder_readVarSigned(_, _, _, _, _, _)
Decoder_readVarSigned(buf, pos, result, shift, width, ub) ==
    LET b == Decoder_readByte(buf, pos)
    IN  IF b.exc # "none" THEN b
        ELSE LET acc == BitsOr(result, GroupShifted(b.val, shift, width, ub))
             IN  IF b.val >= 128
                 THEN Strict(acc, Decoder_readVarSigned(buf, b.pos, acc, shift + 7, width, ub))
                 ELSE [exc |-> "none", pos |-> b.pos,
                       val |-> Limbs(BitsToLimbs(ExtendIfSigned(acc, shift + 7, b.val)))]

\* Decoder::readVarInt32()
Decoder_readVarInt32(buf, pos, ub) == Decoder_readVarSigned(buf, pos, BitsZero(32), 0, 32, ub)

\* Decoder::readVarInt64()
Decoder_readVarInt64(buf, pos, ub) == Decoder_readVarSigned(buf, pos, BitsZero(64), 0, 64, ub)

-----------------------------------------------------------------------------
(* The buffers decoded: LEB128 encodings, canonical and over-long *)

MaxTail == 1            \* bytes that follow an encoding in the buffer

\* the canonical (shortest) unsigned LEB128 encoding of a bit sequence
RECURSIVE EncodeUnsigned(_)
EncodeUnsigned(bits) ==
    LET n    == Len(bits)
        g    == BitsToNat(SubSeq(bits, 1, IF n < 7 THEN n ELSE 7))
        rest == IF n > 7 THEN SubSeq(bits, 8, n) ELSE <<>>
    IN  IF \A i \in 1..Len(rest) : rest[i] = 0 THEN <<g>>
        ELSE <<g + 128>> \o EncodeUnsigned(rest)

\* the canonical (shortest) signed LEB128 encoding of a two's complement bit sequence
RECURSIVE EncodeSigned(_)
EncodeSigned(bits) ==
    LET n    == Len(bits)
        sign == bits[n]
        g7   == [i \in 1..7 |-> IF i <= n THEN bits[i] ELSE sign]
        g    == BitsToNat(SubSeq(g7, 1, 7))
        rest == IF n > 7 THEN SubSeq(bits, 8, n) ELSE <<>>
    IN  IF g7[7] = sign /\ \A i \in 1..Len(rest) : rest[i] = sign THEN <<g>>
        ELSE <<g + 128>> \o EncodeSigned(rest)

EncodeU(n) == EncodeUnsigned(LimbsToBits(n))
EncodeS(n) == EncodeSigned(LimbsToBits(n))

\* values at the edges of every encoding length, as limbs
U32Values ==
    {<<0, 0>>, <<1, 0>>, <<127, 0>>, <<128, 0>>, <<16383, 0>>, <<16384, 0>>, <<65535, 31>>,
     <<0, 32>>, <<65535, 4095>>, <<0, 4096>>, <<0, 32768>>, <<65535, 65535>>}

I32Values ==
    {I32ToLimbs(v) : v \in {0, 1, 11, 63, 64, -1, -64, -65, 8191, 8192, -8192, -8193,
                            134217727, 134217728, -134217728, -134217729,
                            2147483647, INT32_MIN}}

U64Values ==
    {<<0, 0, 0, 0>>, <<1, 0, 0, 0>>, <<128, 0, 0, 0>>, <<65535, 65535, 0, 0>>, <<0, 0, 1, 0>>,
     <<65535, 65535, 65535, 255>>, <<0, 0, 0, 256>>, <<65535, 65535, 65535, 32767>>,
     <<0, 0, 0, 32768>>, <<65535, 65535, 65535, 65535>>}

I64Values ==
    {I64OfInt(0), I64OfInt(1), I64OfInt(63), I64OfInt(64), I64OfInt(-1), I64OfInt(-64),
     I64OfInt(-65), <<65535, 65535, 0, 0>>, <<0, 0, 65535, 65535>>,
     <<65535, 65535, 65535, 16383>>, <<0, 0, 0, 16384>>, <<0, 0, 0, 49152>>,
     <<65535, 65535, 65535, 49151>>, <<65535, 65535, 65535, 32767>>, INT64_MIN}

Tails(max_tail) == SeqsUpTo({1, 128}, max_tail)

CanonicalBuffers(max_tail) ==
    {EncodeU(n) \o tail : n \in U32Values \cup U64Values, tail \in Tails(max_tail)}
    \cup {EncodeS(n) \o tail : n \in I32Values \cup I64Values, tail \in Tails(max_tail)}

\* runs of bytes with the continuation bit set, ended by a last byte or by
\* the end of the buffer
OverLongBuffers ==
    {[i \in 1..n |-> c] \o last_bytes :
        n \in {4, 5, 6, 9, 10, 11}, c \in {128, 255}, last_bytes \in {<<>>, <<0>>, <<127>>}}

LebBuffers(max_tail) == CanonicalBuffers(max_tail) \cup OverLongBuffers \cup {<<>>}

-----------------------------------------------------------------------------
(* The module parser: src/src/decoder.cpp 49-392 and 562-612.  A uint32_t   *)
(* read from the buffer is kept as its two limbs.                          *)

Ok(val, pos) == [exc |-> "none", val |-> val, pos |-> pos]

\* a uint32_t used as a count or a length: buffers are shorter than 65536
\* bytes, so every larger value runs past the end exactly as 65536 does
CountOf(l) == IF l[2] = 0 THEN l[1] ELSE 65536

\* static_cast<ValueType>(byte)
ValueTypeOf(byte) ==
    CASE byte = 127 -> "i32"
      [] byte = 126 -> "i64"
      [] byte = 125 -> "f32"
      [] byte = 124 -> "f64"
      [] byte = 64  -> "void"
      [] byte = 112 -> "funcref"
      [] OTHER      -> "invalid"

\* static_cast<ExternalKind>(byte)
ExternalKindOf(byte) ==
    CASE byte = 0 -> "FUNCTION"
      [] byte = 1 -> "TABLE"
      [] byte = 2 -> "MEMORY"
      [] byte = 3 -> "GLOBAL"
      [] OTHER    -> "invalid"

\* Decoder::readU32(): memcpy of four bytes into a uint32_t of the host
Decoder_readU32(buf, pos, le) ==
    IF Decoder_ensureBytes(buf, pos, 4) THEN EndOfFile(pos)
    ELSE LET b == SubSeq(buf, pos + 1, pos + 4)
         IN  Ok(IF le THEN <<b[1] + 256 * b[2], b[3] + 256 * b[4]>>
                ELSE <<b[4] + 256 * b[3], b[2] + 256 * b[1]>>, pos + 4)

\* Decoder::readBytes(count)
Decoder_readBytes(buf, pos, count) ==
    IF Decoder_ensureBytes(buf, pos, count) THEN EndOfFile(pos)
    ELSE Ok(SubSeq(buf, pos + 1, pos + count), pos + count)

\* the rest of a reader once the read r = [exc, val, pos] has returned: an
\* exception thrown by the read ends the reader
Then(r, rest(_)) == IF r.exc # "none" THEN r ELSE rest(r)

\* Decoder::readName(): the bytes of the name
Decoder_readName(buf, pos) ==
    Then(Decoder_readVarUint32(buf, pos), LAMBDA length :
      Decoder_readBytes(buf, length.pos, CountOf(length.val)))

\* Decoder::readValueType()
Decoder_readValueType(buf, pos) ==
    Then(Decoder_readByte(buf, pos), LAMBDA b : Ok(ValueTypeOf(b.val), b.pos))

\* Decoder::readLimits()
Decoder_readLimits(buf, pos) ==
    Then(Decoder_readByte(buf, pos), LAMBDA flags :
    Then(Decoder_readVarUint32(buf, flags.pos), LAMBDA min :
      IF flags.val % 2 = 1
      THEN Then(Decoder_readVarUint32(buf, min.pos), LAMBDA max :
             Ok([min |-> min.val, max |-> max.val, has_max |-> TRUE], max.pos))
      ELSE Ok([min |-> min.val, max |-> <<0, 0>>, has_max |-> FALSE], min.pos)))

\* reading stops at the first byte 0x0B or at this many bytes
INIT_EXPR_LIMIT == 1024

\* Decoder::readInitExpression()
RECURSIVE Decoder_readInitExpressionLoop(_, _, _)
Decoder_readInitExpressionLoop(buf, pos, expr) ==
    Then(Decoder_readByte(buf, pos), LAMBDA byte :
      IF byte.val = OP_END THEN Ok(Append(expr, byte.val), byte.pos)
      ELSE IF Len(expr) + 1 > INIT_EXPR_LIMIT
      THEN DecoderError(byte.pos, Decoder_formatError(byte.pos,
             <<"Init expression too large (> 1024 bytes)">>))
      ELSE Decoder_readInitExpressionLoop(buf, byte.pos, Append(expr, byte.val)))

Decoder_readInitExpression(buf, pos) == Decoder_readInitExpressionLoop(buf, pos, <<>>)

RECURSIVE Decoder_readItems(_, _, _, _, _)
RECURSIVE Decoder_readVec(_, _, _)
RECURSIVE Decoder_readItem(_, _, _)

\* for (i = 0; i < n; i++) vector.push_back(<one item of `kind`>)
Decoder_readItems(buf, pos, n, kind, acc) ==
    IF n = 0 THEN Ok(acc, pos)
    ELSE Then(Decoder_readItem(buf, pos, kind), LAMBDA r :
           Decoder_readItems(buf, r.pos, n - 1, kind, Append(acc, r.val)))

\* count (varuint32) followed by that many items
Decoder_readVec(buf, pos, kind) ==
    Then(Decoder_readVarUint32(buf, pos), LAMBDA count :
      Decoder_readItems(buf, count.pos, CountOf(count.val), kind, <<>>))

\* Decoder::readFuncType()
Decoder_readFuncType(buf, pos) ==
    Then(Decoder_readByte(buf, pos), LAMBDA form :
      IF form.val # 96
      THEN DecoderError(form.pos, Decoder_formatError(form.pos,
             <<"Invalid function type form: expected 0x60, got 0x", form.val>>))
      ELSE Then(Decoder_readVec(buf, form.pos, "valtype"), LAMBDA params :
           Then(Decoder_readVec(buf, params.pos, "valtype"), LAMBDA res :
             Ok([params |-> params.val, results |-> res.val], res.pos))))

\* one entry of the Table section
Decoder_readTable(buf, pos) ==
    Then(Decoder_readValueType(buf, pos), LAMBDA t :
    Then(Decoder_readLimits(buf, t.pos), LAMBDA l :
      Ok([element_type |-> t.val, limits |-> l.val], l.pos)))

\* one entry of the Memory section
Decoder_readMemory(buf, pos) ==
    Then(Decoder_readLimits(buf, pos), LAMBDA l : Ok([limits |-> l.val], l.pos))

\* one entry of the Global section
Decoder_readGlobal(buf, pos) ==
    Then(Decoder_readValueType(buf, pos), LAMBDA t :
    Then(Decoder_readByte(buf, t.pos), LAMBDA m :
    Then(Decoder_readInitExpression(buf, m.pos), LAMBDA x :
      Ok([type |-> t.val, is_mutable |-> m.val # 0, init_expr |-> x.val], x.pos))))

\* one entry of the Export section
Decoder_readExport(buf, pos) ==
    Then(Decoder_readName(buf, pos), LAMBDA name :
    Then(Decoder_readByte(buf, name.pos), LAMBDA kind :
    Then(Decoder_readVarUint32(buf, kind.pos), LAMBDA index :
      Ok([name |-> name.val, kind |-> ExternalKindOf(kind.val), index |-> index.val],
         index.pos))))

\* the type information of an import, by its kind
Decoder_readImportType(buf, pos, kind) ==
    CASE kind = "FUNCTION" -> Decoder_readVarUint32(buf, pos)
      [] kind = "TABLE"    -> Decoder_readTable(buf, pos)
      [] kind = "MEMORY"   -> Decoder_readMemory(buf, pos)
      [] kind = "GLOBAL"   ->
           Then(Decoder_readValueType(buf, pos), LAMBDA t :
           Then(Decoder_readByte(buf, t.pos), LAMBDA m :
             Ok([type |-> t.val, is_mutable |-> m.val # 0], m.pos)))
      [] OTHER             -> Ok(<<>>, pos)

\* one entry of the Import section
Decoder_readImport(buf, pos) ==
    Then(Decoder_readName(buf, pos), LAMBDA module_name :
    Then(Decoder_readName(buf, module_name.pos), LAMBDA field_name :
    Then(Decoder_readByte(buf, field_name.pos), LAMBDA kind :
    Then(Decoder_readImportType(buf, kind.pos, ExternalKindOf(kind.val)), LAMBDA info :
      Ok([module_name |-> module_name.val,
          field_name  |-> field_name.val,
          kind        |-> ExternalKindOf(kind.val),
          info        |-> info.val], info.pos)))))

\* one entry of the Element section
Decoder_readElement(buf, pos) ==
    Then(Decoder_readVarUint32(buf, pos), LAMBDA table_index :
    Then(Decoder_readInitExpression(buf, table_index.pos), LAMBDA x :
    Then(Decoder_readVec(buf, x.pos, "u32"), LAMBDA f :
      Ok([table_index |-> table_index.val, offset_expr |-> x.val, func_indices |-> f.val],
         f.pos))))

\* one entry of the Data section
Decoder_readData(buf, pos) ==
    Then(Decoder_readVarUint32(buf, pos), LAMBDA memory_index :
    Then(Decoder_readInitExpression(buf, memory_index.pos), LAMBDA x :
    Then(Decoder_readVarUint32(buf, x.pos), LAMBDA n :
    Then(Decoder_readBytes(buf, n.pos, CountOf(n.val)), LAMBDA d :
      Ok([memory_index |-> memory_index.val, offset_expr |-> x.val, data |-> d.val],
         d.pos)))))

\* one (count, type) pair of a function's locals: the types it stands for
Decoder_readLocalDecl(buf, pos) ==
    Then(Decoder_readVarUint32(buf, pos), LAMBDA local_count :
    Then(Decoder_readValueType(buf, local_count.pos), LAMBDA t :
      Ok([k \in 1..CountOf(local_count.val) |-> t.val], t.pos)))

Decoder_readItem(buf, pos, kind) ==
    CASE kind = "u32"       -> Decoder_readVarUint32(buf, pos)
      [] kind = "valtype"   -> Decoder_readValueType(buf, pos)
      [] kind = "functype"  -> Decoder_readFuncType(buf, pos)
      [] kind = "table"     -> Decoder_readTable(buf, pos)
      [] kind = "memory"    -> Decoder_readMemory(buf, pos)
      [] kind = "global"    -> Decoder_readGlobal(buf, pos)
      [] kind = "export"    -> Decoder_readExport(buf, pos)
      [] kind = "import"    -> Decoder_readImport(buf, pos)
      [] kind = "element"   -> Decoder_readElement(buf, pos)
      [] kind = "data"      -> Decoder_readData(buf, pos)
      [] kind = "localdecl" -> Decoder_readLocalDecl(buf, pos)

\* the result of a section parser: [exc, pos, module]
Parsed(exc, pos, M) == [exc |-> exc, pos |-> pos, module |-> M]

\* a section parser left by the exception r, the module as it was
Thrown(r, M) == [exc |-> r.exc, pos |-> r.pos, what |-> r.what, module |-> M]

\* the rest of a section parser once the read r has returned: an exception
\* thrown by the read ends the parser, the module as it was
ThenParsed(r, M, rest(_)) == IF r.exc # "none" THEN Thrown(r, M) ELSE rest(r)

\* a section that is a vector of items pushed onto one member of the module
Decoder_parseVecSection(buf, pos, M, kind, member) ==
    ThenParsed(Decoder_readVec(buf, pos, kind), M, LAMBDA r :
      Parsed("none", r.pos, [M EXCEPT ![member] = @ \o r.val]))

\* the catch of parseTypeSection: a DecoderError of readFuncType is thrown
\* again with "In type section, entry <i>: " and its what() behind the
\* position (the entry number is left out)
InTypeSection(r) ==
    IF r.exc = "DecoderError"
    THEN DecoderError(r.pos, Decoder_formatError(r.pos, <<"In type section, entry ">> \o r.what))
    ELSE r

\* Decoder::parseTypeSection
Decoder_parseTypeSection(buf, pos, M) ==
    ThenParsed(Decoder_readVarUint32(buf, pos), M, LAMBDA count :
    ThenParsed(InTypeSection(Decoder_readItems(buf, count.pos, CountOf(count.val),
                                               "functype", <<>>)), M, LAMBDA r :
      Parsed("none", r.pos, [M EXCEPT !.types = @ \o r.val])))

\* Decoder::parseStartSection
Decoder_parseStartSection(buf, pos, M) ==
    ThenParsed(Decoder_readVarUint32(buf, pos), M, LAMBDA r :
      Parsed("none", r.pos, [M EXCEPT !.start_function_index = r.val,
                                      !.has_start_function = TRUE]))

\* the bodies of Decoder::parseCodeSection, from body i (0-based) on
RECURSIVE Decoder_parseBodies(_, _, _, _, _)
Decoder_parseBodies(buf, pos, M, i, count) ==
    IF i >= count THEN Parsed("none", pos, M)
    ELSE
      ThenParsed(Decoder_readVarUint32(buf, pos), M, LAMBDA body_size :
      ThenParsed(Decoder_readVec(buf, body_size.pos, "localdecl"), M, LAMBDA decls :
        LET body_start == body_size.pos
            body_bytes == CountOf(body_size.val) - (decls.pos - body_start)
        IN  IF body_bytes < 0
            THEN Thrown([exc |-> "LengthError", pos |-> decls.pos, what |-> <<>>], M)
            ELSE
              ThenParsed(Decoder_readBytes(buf, decls.pos, body_bytes), M, LAMBDA body :
                Decoder_parseBodies(buf, body.pos,
                   [M EXCEPT !.functions = Append(@,
                       [type_index |-> M.function_types[i + 1],
                        locals     |-> Concat(decls.val),
                        body       |-> body.val])],
                   i + 1, count))))

\* Decoder::parseCodeSection
Decoder_parseCodeSection(buf, pos, M) ==
    ThenParsed(Decoder_readVarUint32(buf, pos), M, LAMBDA count :
      IF CountOf(count.val) # Len(M.function_types)
      THEN Thrown(DecoderError(count.pos, Decoder_formatError(count.pos,
                    <<"Code section count (", count.val, ") does not match function count (",
                      Len(M.function_types), ")">>)), M)
      ELSE Decoder_parseBodies(buf, count.pos, M, 0, CountOf(count.val)))

\* Section IDs
SEC_CUSTOM == 0
SEC_TYPE == 1
SEC_IMPORT == 2
SEC_FUNCTION == 3
SEC_TABLE == 4
SEC_MEMORY == 5
SEC_GLOBAL == 6
SEC_EXPORT == 7
SEC_START == 8
SEC_ELEMENT == 9
SEC_CODE == 10
SEC_DATA == 11

\* Decoder::parseSection
Decoder_parseSection(buf, pos, M, section_id) ==
    CASE section_id = SEC_TYPE     -> Decoder_parseTypeSection(buf, pos, M)
      [] section_id = SEC_IMPORT   -> Decoder_parseVecSection(buf, pos, M, "import", "imports")
      [] section_id = SEC_FUNCTION -> Decoder_parseVecSection(buf, pos, M, "u32", "function_types")
      [] section_id = SEC_TABLE    -> Decoder_parseVecSection(buf, pos, M, "table", "tables")
      [] section_id = SEC_MEMORY   -> Decoder_parseVecSection(buf, pos, M, "memory", "memories")
      [] section_id = SEC_GLOBAL   -> Decoder_parseVecSection(buf, pos, M, "global", "globals")
      [] section_id = SEC_EXPORT   -> Decoder_parseVecSection(buf, pos, M, "export", "exports")
      [] section_id = SEC_START    -> Decoder_parseStartSection(buf, pos, M)
      [] section_id = SEC_ELEMENT  ->
           Decoder_parseVecSection(buf, pos, M, "element", "element_segments")
      [] section_id = SEC_CODE     -> Decoder_parseCodeSection(buf, pos, M)
      [] section_id = SEC_DATA     -> Decoder_parseVecSection(buf, pos, M, "data", "data_segments")
      [] section_id = SEC_CUSTOM   -> Parsed("none", pos, M)
      [] OTHER                     ->
           Thrown(DecoderError(pos, <<"Unknown section ID: ", section_id>>), M)

\* Decoder::hasMoreData()
Decoder_hasMoreData(buf, pos) == pos < Len(buf)

\* SectionLoopBody with the cursor set to the declared end of the section
\* wherever parseSection left it
SectionLoopBodyRewinds(buf, pos, M) ==
    ThenParsed(Decoder_readByte(buf, pos), M, LAMBDA section_id :
    ThenParsed(Decoder_readVarUint32(buf, section_id.pos), M, LAMBDA section_size :
    Then(Decoder_parseSection(buf, section_size.pos, M, section_id.val), LAMBDA r :
      LET section_start == section_size.pos
          expected_end  == section_start + CountOf(section_size.val)
      IN  [exc |-> "none", module |-> r.module,
           pos |-> expected_end,
           section_id |-> section_id.val, section_start |-> section_start,
           section_size |-> CountOf(section_size.val), parsed_to |-> r.pos])))

\* one iteration of the while of Decoder::parseModule: [exc, pos, module] and
\* what the iteration read (section_id, section_start, section_size) and where
\* parseSection left the cursor (parsed_to)
SectionLoopBody(buf, pos, M) ==
    ThenParsed(Decoder_readByte(buf, pos), M, LAMBDA section_id :
    ThenParsed(Decoder_readVarUint32(buf, section_id.pos), M, LAMBDA section_size :
    Then(Decoder_parseSection(buf, section_size.pos, M, section_id.val), LAMBDA r :
      LET section_start == section_size.pos
          expected_end  == section_start + CountOf(section_size.val)
      IN  [exc |-> "none", module |-> r.module,
           pos |-> IF r.pos < expected_end THEN expected_end ELSE r.pos,
           section_id |-> section_id.val, section_start |-> section_start,
           section_size |-> CountOf(section_size.val), parsed_to |-> r.pos])))

\* Decoder::parseModule: the loop over the sections
RECURSIVE Decoder_parseModule(_, _, _)
Decoder_parseModule(buf, pos, M) ==
    IF ~Decoder_hasMoreData(buf, pos) THEN Parsed("none", pos, M)
    ELSE Then(SectionLoopBody(buf, pos, M), LAMBDA r :
           Decoder_parseModule(buf, r.pos, r.module))

WASM_MAGIC == <<24832, 28019>>      \* 0x6D736100
WASM_VERSION == <<1, 0>>

\* Module(), with has_start_function cleared by parseModule;
\* start_function_index is indeterminate until a Start section sets it
NewModule ==
    [types |-> <<>>, functions |-> <<>>, function_types |-> <<>>, memories |-> <<>>,
     globals |-> <<>>, tables |-> <<>>, exports |-> <<>>, imports |-> <<>>,
     data_segments |-> <<>>, element_segments |-> <<>>,
     start_function_index |-> <<0, 0>>, has_start_function |-> FALSE]

\* Decoder::verifyMagicAndVersion(): [exc, pos]
Decoder_verifyMagicAndVersion(buf, le) ==
    IF Len(buf) < 8 THEN DecoderError(0, <<"File too small to be a valid WASM module">>)
    ELSE LET magic == Decoder_readU32(buf, 0, le)
         IN  IF magic.val # WASM_MAGIC
             THEN DecoderError(magic.pos, <<"Invalid magic number">>)
             ELSE LET version == Decoder_readU32(buf, magic.pos, le)
                  IN  IF version.val # WASM_VERSION
                      THEN DecoderError(version.pos, <<"Unsupported version">>)
                      ELSE Ok(<<>>, version.pos)

\* Decoder::parseBytes(bytes): [exc, pos, module]
Decoder_parseBytes(bytes, le) ==
    LET v == Decoder_verifyMagicAndVersion(bytes, le)
    IN  IF v.exc # "none" THEN Thrown(v, NewModule)
        ELSE Decoder_parseModule(bytes, v.pos, NewModule)

-----------------------------------------------------------------------------
(* The buffers decoded: constant expressions and modules *)

\* c as the one byte of its signed LEB128 encoding, for c in -64..63
SLeb1(c) == c % 128

F32Immediates == {<<0, 0, 0, 0>>, <<0, 0, 128, 63>>, <<0, 0, 48, 65>>, <<11, 0, 0, 0>>}
F64Immediates ==
    {<<0, 0, 0, 0, 0, 0, 0, 0>>, <<0, 0, 0, 0, 0, 0, 240, 63>>, <<0, 0, 0, 0, 0, 0, 38, 64>>}

\* i32.const c; end, i64.const c; end, f32.const x; end, f64.const x; end and
\* global.get i; end
ConstExprs ==
    {<<OP_I32_CONST, SLeb1(c), OP_END>> : c \in -64..63}
    \cup {<<OP_I64_CONST, SLeb1(c), OP_END>> : c \in -64..63}
    \cup {<<OP_F32_CONST>> \o x \o <<OP_END>> : x \in F32Immediates}
    \cup {<<OP_F64_CONST>> \o x \o <<OP_END>> : x \in F64Immediates}
    \cup {<<OP_GLOBAL_GET, i, OP_END>> : i \in 0..12}

InitExprBuffers(max_tail) == {x \o tail : x \in ConstExprs, tail \in Tails(max_tail)}

MaxSections == 3        \* sections after the header of a generated module

Header == <<0, 97, 115, 109, 1, 0, 0, 0>>

\* a section: id, size, payload
Section(id, payload) == <<id, Len(payload)>> \o payload

TypeSec == Section(SEC_TYPE, <<1, 96, 0, 0>>)
FuncSec(n) == Section(SEC_FUNCTION, <<n>> \o [i \in 1..n |-> 0])
CodeSec(n) == Section(SEC_CODE, <<n>> \o Concat([i \in 1..n |-> <<2, 0, OP_END>>]))

\* modules made of Type, Function and Code sections in every order
FunctionSections == {TypeSec, FuncSec(1), FuncSec(2), CodeSec(0), CodeSec(1), CodeSec(2)}

FunctionModuleBuffers(max_sections) ==
    {Header \o Concat(secs) : secs \in SeqsUpTo(FunctionSections, max_sections)}

\* a module with one section of every kind
FullModuleBuffer ==
    Header
    \o TypeSec
    \o Section(SEC_IMPORT, <<4, 1, 97, 1, 98, 0, 0,
                             1, 97, 1, 99, 1, 112, 0, 1,
                             1, 97, 1, 100, 2, 1, 1, 2,
                             1, 97, 1, 101, 3, 127, 0>>)
    \o FuncSec(1)
    \o Section(SEC_TABLE, <<1, 112, 0, 2>>)
    \o Section(SEC_MEMORY, <<1, 1, 1, 2>>)
    \o Section(SEC_GLOBAL, <<1, 127, 0, OP_I32_CONST, 5, OP_END>>)
    \o Section(SEC_EXPORT, <<1, 1, 97, 0, 0>>)
    \o Section(SEC_START, <<0>>)
    \o Section(SEC_ELEMENT, <<1, 0, OP_I32_CONST, 0, OP_END, 1, 0>>)
    \o Section(SEC_CODE, <<1, 4, 1, 2, 127, OP_END>>)
    \o Section(SEC_DATA, <<1, 0, OP_I32_CONST, 0, OP_END, 2, 7, 8>>)
    \o Section(SEC_CUSTOM, <<1, 120>>)

\* malformed modules: unknown section, wrong magic, wrong version, truncated
\* section, locals longer than the body
MalformedBuffers ==
    {Header \o <<12, 0>>,
     <<1, 97, 115, 109, 1, 0, 0, 0>>,
     <<0, 97, 115, 109, 2, 0, 0, 0>>,
     Header \o <<SEC_TYPE>>,
     Header \o <<SEC_TYPE, 4, 1, 95, 0, 0>>,
     Header \o FuncSec(1) \o Section(SEC_CODE, <<1, 1, 1, 2, 127, OP_END>>)}

ModuleBuffers(max_sections) ==
    FunctionModuleBuffers(max_sections) \cup {FullModuleBuffer} \cup MalformedBuffers

DecoderBuffers(max_tail, max_sections) ==
    LebBuffers(max_tail) \cup InitExprBuffers(max_tail) \cup ModuleBuffers(max_sections)

-----------------------------------------------------------------------------
(* SpecDecoder: one Decoder operation applied to a buffer from position 0 *)

InitDecoder ==
    /\ buffer_ \in DecoderBuffers(MaxTail, MaxSections)
    /\ position_ = 0
    /\ decoded = NoDecoded
    /\ memory_ = NoMemory
    /\ host_le = TRUE
    /\ mem_op = [op |-> "none"]
    /\ mem_ops = 0
    /\ ExecIdle

\* the variables after the operation `op` gave r = [exc, val, pos]
Decoded(op, r) ==
    /\ position_' = r.pos
    /\ decoded' = [op |-> op, exc |-> r.exc, value |-> IF r.exc = "none" THEN r.val ELSE <<>>,
                   what |-> IF r.exc = "none" THEN <<>> ELSE r.what]
    /\ UNCHANGED <<buffer_, memVars, execVars>>

ReadVarUint32 ==
    /\ decoded = NoDecoded
    /\ Decoded("readVarUint32", Decoder_readVarUint32(buffer_, position_))

ReadVarUint64 ==
    /\ decoded = NoDecoded
    /\ Decoded("readVarUint64", Decoder_readVarUint64(buffer_, position_))

ReadVarInt32 ==
    /\ decoded = NoDecoded
    /\ \E ub \in ShiftCountOutcomes :
         Decoded("readVarInt32", Decoder_readVarInt32(buffer_, position_, ub))

ReadVarInt64 ==
    /\ decoded = NoDecoded
    /\ \E ub \in ShiftCountOutcomes :
         Decoded("readVarInt64", Decoder_readVarInt64(buffer_, position_, ub))

ReadInitExpression ==
    /\ decoded = NoDecoded
    /\ Decoded("readInitExpression", Decoder_readInitExpression(buffer_, position_))

ParseBytes ==
    /\ decoded = NoDecoded
    /\ LET r == Decoder_parseBytes(buffer_, host_le)
       IN  Decoded("parseBytes", [exc |-> r.exc, val |-> r.module, pos |-> r.pos,
                                  what |-> IF r.exc = "none" THEN <<>> ELSE r.what])

NextDecoder ==
    \/ ParseBytes
    \/ ReadInitExpression
    \/ ReadVarUint32
    \/ ReadVarUint64
    \/ ReadVarInt32
    \/ ReadVarInt64

SpecDecoder == InitDecoder /\ [][NextDecoder]_vars

-----------------------------------------------------------------------------
(* SpecSections: parseBytes, one iteration of the section loop at a time *)

\* a Type section of one entry whose declared size is `size` (its content
\* takes 4 bytes)
TypeSecOfSize(size) == <<SEC_TYPE, size, 1, 96, 0, 0>>

\* sections whose parser consumes fewer bytes than declared (a custom section,
\* a Type section with two bytes to spare), as many, or more
SizedSections ==
    {Section(SEC_CUSTOM, <<1, 97, 1>>), <<SEC_CUSTOM, 0>>, FuncSec(1), CodeSec(1)}
    \cup {TypeSecOfSize(size) : size \in {1, 3, 4, 6}}

SizedBuffers(max_sections) ==
    {Header \o Concat(secs) : secs \in SeqsUpTo(SizedSections, max_sections)}

\* modules with a declared length that exceeds the bytes remaining: the name
\* of an export, the bytes of a data segment, a function body, and an init
\* expression that the buffer ends in
DeclaredTooLongBuffers ==
    {Header \o Section(SEC_EXPORT, <<1, 2, 97, 0, 0>>),
     Header \o <<SEC_EXPORT, 6, 1, 9, 97, 98, 0, 0>>,
     Header \o Section(SEC_DATA, <<1, 0, OP_I32_CONST, 0, OP_END, 3, 1, 2>>),
     Header \o TypeSec \o FuncSec(1) \o Section(SEC_CODE, <<1, 5, 0, OP_NOP, OP_END>>),
     Header \o TypeSec \o FuncSec(1) \o <<SEC_CODE, 4, 1, 127, 0, OP_END>>,
     Header \o Section(SEC_GLOBAL, <<1, 127, 0, OP_I32_CONST, 5>>),
     Header \o Section(SEC_DATA, <<1, 0, OP_I32_CONST>>)}

\* modules with a function body whose declared size is smaller than its
\* local declarations: 1 or 2 bytes declared, 3 bytes of declarations
BodyTooShortBuffers ==
    {Header \o TypeSec \o FuncSec(1) \o Section(SEC_CODE, <<1, size, 1, 2, 127, OP_END>>) \o tail :
        size \in {1, 2}, tail \in {<<>>, <<SEC_CUSTOM, 0>>}}

SectionBuffers(max_sections) ==
    ModuleBuffers(max_sections) \cup SizedBuffers(max_sections)
        \cup DeclaredTooLongBuffers \cup BodyTooShortBuffers

\* no section parsed yet
NoSection == [section_id |-> -1]

InitSections ==
    /\ buffer_ \in SectionBuffers(MaxSections)
    /\ position_ = 0
    /\ decoded = NoDecoded
    /\ memory_ = NoMemory
    /\ host_le = TRUE
    /\ mem_op = [op |-> "none"]
    /\ mem_ops = 0
    /\ ExecIdle

\* parseBytes left, by return or by the exception of r
ParseBytesEnds(r) ==
    /\ position_' = r.pos
    /\ decoded' = [op |-> "parseBytes", exc |-> r.exc,
                   value |-> IF r.exc = "none" THEN r.module ELSE <<>>,
                   what |-> IF r.exc = "none" THEN <<>> ELSE r.what]
    /\ UNCHANGED <<buffer_, memVars, execVars>>

\* parseModule at the test of its while, `section` the iteration before
InParseModule(r, section) ==
    /\ position_' = r.pos
    /\ decoded' = [op |-> "parseModule", exc |-> "none", value |-> r.module,
                   what |-> <<>>, section |-> section]
    /\ UNCHANGED <<buffer_, memVars, execVars>>

\* parseBytes up to the while of parseModule
VerifyMagicAndVersion ==
    /\ decoded = NoDecoded
    /\ LET v == Decoder_verifyMagicAndVersion(buffer_, host_le)
       IN  IF v.exc # "none" THEN ParseBytesEnds(Thrown(v, NewModule))
           ELSE InParseModule(Parsed("none", v.pos, NewModule), NoSection)

ParseSectionGave(r) ==
    IF r.exc # "none" THEN ParseBytesEnds(r)
    ELSE InParseModule(r, [section_id |-> r.section_id, section_start |-> r.section_start,
                           section_size |-> r.section_size, parsed_to |-> r.parsed_to])

\* one iteration of the while of parseModule
ParseSection ==
    /\ decoded # NoDecoded
    /\ decoded.op = "parseModule"
    /\ Decoder_hasMoreData(buffer_, position_)
    /\ ParseSectionGave(SectionLoopBody(buffer_, position_, decoded.value))

\* the while of parseModule ends: parseBytes returns the module
ParseModuleReturns ==
    /\ decoded # NoDecoded
    /\ decoded.op = "parseModule"
    /\ ~Decoder_hasMoreData(buffer_, position_)
    /\ ParseBytesEnds(Parsed("none", position_, decoded.value))

NextSections ==
    \/ VerifyMagicAndVersion
    \/ ParseSection
    \/ ParseModuleReturns

SpecSections == InitSections /\ [][NextSections]_vars

\* the while of parseModule is about to run an iteration
SectionPending ==
    /\ decoded # NoDecoded
    /\ decoded.op = "parseModule"
    /\ Decoder_hasMoreData(buffer_, position_)

\* parseBytes runs in one thread that is never suspended for ever: weak
\* fairness of each of its steps.  That of ParseSection is written out, with
\* SectionPending for ENABLED <<ParseSection>>_vars: an iteration is a total
\* function of the buffer and the cursor and always changes the state.
SpecSectionsFair ==
    /\ SpecSections
    /\ WF_vars(VerifyMagicAndVersion)
    /\ WF_vars(ParseModuleReturns)
    /\ ([]<>~SectionPending \/ []<><<ParseSection>>_vars)

-----------------------------------------------------------------------------
(* Claims about the decoder, checked under SpecDecoder *)

IsPrefix(p, q) == Len(p) <= Len(q) /\ SubSeq(q, 1, Len(p)) = p

\* the operation returned n and left the cursor just after the encoding
Returned(n, encoding) ==
    /\ decoded.exc = "none"
    /\ decoded.value = n
    /\ position_ = Len(encoding)

\* the reader `op` applied to a buffer that starts with the canonical encoding
\* of a value of `values` returned that value and consumed the encoding
RoundTrip(op, values, Encode(_)) ==
    decoded.op = op =>
        \A n \in values : IsPrefix(Encode(n), buffer_) => Returned(n, Encode(n))

\* C12: each of the four LEB128 readers applied to the canonical encoding of
\* a value of its type returns that value, and the cursor advances by exactly
\* the length of the encoding.
C12_CanonicalLebRoundTrip ==
    /\ RoundTrip("readVarUint32", U32Values, EncodeU)
    /\ RoundTrip("readVarUint64", U64Values, EncodeU)
    /\ RoundTrip("readVarInt32", I32Values, EncodeS)
    /\ RoundTrip("readVarInt64", I64Values, EncodeS)

\* readVarInt64 has read the ten bytes of INT64_MIN, with more bytes behind
C12_Witness ==
    /\ decoded.op = "readVarInt64"
    /\ IsPrefix(EncodeS(INT64_MIN), buffer_)
    /\ Len(buffer_) > Len(EncodeS(INT64_MIN))
    /\ Returned(INT64_MIN, EncodeS(INT64_MIN))

LebReaders == {"readVarUint32", "readVarUint64", "readVarInt32", "readVarInt64"}

\* the bytes an encoding of the reader's type may have
MaxBytes(op) == IF op \in {"readVarUint32", "readVarInt32"} THEN 5 ELSE 10

\* the continuation bit is set in each of the first n bytes
OverLong(buf, n) == Len(buf) >= n /\ \A i \in 1..n : buf[i] >= 128

\* C13: each of the four LEB128 readers rejects with a decoder error an
\* encoding whose continuation bit is still set after the most bytes its type
\* permits (5 for the 32-bit readers, 10 for the 64-bit readers).
C13_OverLongLebRejected ==
    (decoded.op \in LebReaders /\ OverLong(buffer_, MaxBytes(decoded.op)))
        => decoded.exc = "DecoderError"

\* C14: decoding fails whenever the Code section's number of bodies differs
\* from the Function section's number of entries: every module parseBytes
\* returns has functions.size() == function_types.size(), whatever the order
\* and presence of the two sections.
C14_OneBodyPerFunction ==
    (decoded.op = "parseBytes" /\ decoded.exc = "none")
        => Len(decoded.value.functions) = Len(decoded.value.function_types)

\* C15: the init-expression reader applied to `i32.const c; end`,
\* `i64.const c; end`, `f32.const x; end`, `f64.const x; end` or
\* `global.get i; end` returns exactly that expression and leaves the cursor
\* on the byte after its end instruction, for every immediate value.
C15_InitExpressionReadWhole ==
    decoded.op = "readInitExpression" =>
        \A x \in ConstExprs : IsPrefix(x, buffer_) => Returned(x, x)

-----------------------------------------------------------------------------
(* Structured constructs as the binary format lays them out: the positions  *)
(* the claims about if, block and the forward scan are stated against       *)

\* the position after one LEB128
RECURSIVE LebEnd(_, _)
LebEnd(code, pc) ==
    IF pc >= Len(code) THEN pc
    ELSE IF ByteAt(code, pc) >= 128 THEN LebEnd(code, pc + 1)
    ELSE pc + 1

\* the position after n LEB128s
RECURSIVE LebsEnd(_, _, _)
LebsEnd(code, pc, n) == IF n = 0 THEN pc ELSE LebsEnd(code, LebEnd(code, pc), n - 1)

\* the number a LEB128 of at most two bytes encodes
LebNat(code, pc) ==
    IF ByteAt(code, pc) < 128 THEN ByteAt(code, pc)
    ELSE (ByteAt(code, pc) - 128) + 128 * (ByteAt(code, pc + 1) % 128)

\* the position after the immediates of the instruction whose opcode ends at pc
ImmediatesEnd(code, opcode, pc) ==
    IF opcode \in {OP_BLOCK, OP_LOOP, OP_IF} THEN pc + 1
    ELSE IF opcode \in {OP_BR, OP_BR_IF, OP_CALL, OP_LOCAL_GET, OP_LOCAL_SET, OP_LOCAL_TEE,
                        OP_GLOBAL_GET, OP_GLOBAL_SET, OP_I32_CONST, OP_I64_CONST}
    THEN LebEnd(code, pc)
    ELSE IF opcode = OP_BR_TABLE
    THEN LebsEnd(code, LebEnd(code, pc), LebNat(code, pc) + 1)
    ELSE IF opcode = OP_CALL_INDIRECT THEN LebEnd(code, pc) + 1
    ELSE IF opcode \in {OP_MEMORY_SIZE, OP_MEMORY_GROW} THEN pc + 1
    ELSE IF opcode >= OP_I32_LOAD /\ opcode <= OP_I64_STORE32 THEN LebsEnd(code, pc, 2)
    ELSE IF opcode = OP_F32_CONST THEN pc + 4
    ELSE IF opcode = OP_F64_CONST THEN pc + 8
    ELSE IF opcode = OP_PREFIX_FC THEN LebEnd(code, pc)
    ELSE pc

\* the construct whose body starts at pc: the position after its else (0 when
\* it has none) and after its matching end (0 when the body has none)
RECURSIVE Construct(_, _, _, _)
Construct(code, pc, depth, else_pc) ==
    IF pc >= Len(code) THEN [else_pc |-> else_pc, end_pc |-> 0]
    ELSE LET opcode == ByteAt(code, pc)
         IN  IF opcode = OP_END
             THEN (IF depth = 1 THEN [else_pc |-> else_pc, end_pc |-> pc + 1]
                   ELSE Construct(code, pc + 1, depth - 1, else_pc))
             ELSE IF opcode = OP_ELSE
             THEN Construct(code, pc + 1, depth, IF depth = 1 THEN pc + 1 ELSE else_pc)
             ELSE IF opcode \in {OP_BLOCK, OP_LOOP, OP_IF}
             THEN Construct(code, pc + 2, depth + 1, else_pc)
             ELSE Construct(code, ImmediatesEnd(code, opcode, pc + 1), depth, else_pc)

\* the instruction just executed, in the function still running
JustExecuted(opcodes) ==
    /\ status = "running"
    /\ last.opcode \in opcodes
    /\ last.code = code_
    /\ last.depth = Len(native_)

\* the if just executed: its condition and its construct
IfCondition == last.stack[Len(last.stack)].value
IfConstruct == Construct(last.code, last.pc + 2, 1, 0)

\* the label of the construct is on top of the labels the instruction found
EntersConstruct(end_pc) ==
    /\ Len(labels_) = Len(last.labels) + 1
    /\ SubSeq(labels_, 1, Len(last.labels)) = last.labels
    /\ labels_[Len(labels_)].target_pc = end_pc

\* C21: an if runs its then-arm when the condition popped is not zero and its
\* else-arm when it is zero (no arm when it has no else); the else that ends
\* the then-arm continues right after the matching end, and whenever no arm is
\* left to run the labels are those found before the if.
C21_IfRunsOneArm ==
    /\ JustExecuted({OP_IF}) =>
         IF IfCondition # 0
         THEN pc_ = last.pc + 2 /\ EntersConstruct(IfConstruct.end_pc)
         ELSE IF IfConstruct.else_pc > 0
         THEN pc_ = IfConstruct.else_pc /\ EntersConstruct(IfConstruct.end_pc)
         ELSE pc_ = IfConstruct.end_pc /\ labels_ = last.labels
    /\ JustExecuted({OP_ELSE}) =>
         /\ pc_ = Construct(last.code, last.pc + 1, 1, 0).end_pc
         /\ labels_ = SubSeq(last.labels, 1, Len(last.labels) - 1)

\* the function a `call` just entered: its index, type and declaration
Callee == LebNat(last.code, last.pc + 1)
CalleeType == getFunctionType(module_, WOfNat(Callee))
CalleeDecl == module_.functions[Callee - getImportedFunctionCount(module_) + 1]

\* a `call` entered a local function, which has not executed an instruction
CallEntered ==
    /\ status = "running"
    /\ last.opcode = OP_CALL
    /\ Invoked(Callee)
    /\ Callee >= getImportedFunctionCount(module_)

\* the zero of a value type: 0, 0L, +0.0f, +0.0
ZeroValue(type) ==
    [type |-> type,
     value |-> CASE type = "i32" -> 0
                 [] type = "i64" -> <<0, 0, 0, 0>>
                 [] type = "f32" -> <<0, 0, 0, 0>>
                 [] type = "f64" -> <<0, 0, 0, 0, 0, 0, 0, 0>>]

\* C22: entering a local function of n parameters and m declared locals pops
\* exactly n values; local i is the i-th of them in push order (the value
\* pushed last is parameter n - 1) and every declared local is the zero of its
\* type.
C22_ParamsAndLocalsAtEntry ==
    CallEntered =>
        LET n == Len(CalleeType.params)
            m == Len(CalleeDecl.locals)
            h == Len(last.stack) - n
        IN  /\ stack_ = SubSeq(last.stack, 1, h)
            /\ Len(locals_) = n + m
            /\ \A i \in 1..n : locals_[i] = last.stack[h + i]
            /\ \A j \in 1..m : locals_[n + j] = ZeroValue(CalleeDecl.locals[j])

\* a function of two parameters and declared locals was entered over a stack
\* holding more than its arguments
C22_Witness ==
    /\ CallEntered
    /\ Len(CalleeType.params) = 2
    /\ Len(CalleeDecl.locals) = 3
    /\ stack_ # <<>>
    /\ locals_[1] # locals_[2]

\* the f-th imported function, counting the function imports only
FunctionImport(f) ==
    SelectSeq(module_.imports, LAMBDA import : import.kind = "FUNCTION")[f + 1]

IsFdWrite(import) ==
    import.module_name = "wasi_snapshot_preview1" /\ import.field_name = "fd_write"

\* a `call` of an imported function was just executed, or has just thrown
ImportCalled ==
    /\ last.opcode = OP_CALL
    /\ Callee < getImportedFunctionCount(module_)
    /\ status \notin {"returned", "idle"}

\* fd_write ran: its four arguments are gone and its result 0 is pushed
FdWriteRan ==
    /\ status = "running"
    /\ stack_ = Append(SubSeq(last.stack, 1, Len(last.stack) - 4), makeI32(0))

\* C23: a call of function index f below the number of imported functions
\* concerns the f-th function import, whatever other imports precede it: the
\* host call runs when that import is wasi_snapshot_preview1::fd_write, and the
\* call raises a Trap, running nothing, for any other import.
C23_ImportCallRoutedByFunctionIndex ==
    ImportCalled =>
        IF IsFdWrite(FunctionImport(Callee)) THEN FdWriteRan
        ELSE status = "Trap" /\ stack_ = last.stack /\ memory_ = last.memory

\* the global a global.set just executed names
GlobalSetIndex == LebNat(last.code, last.pc + 1)

\* a global.set of a global declared immutable was executed
ImmutableGlobalSet ==
    /\ last.opcode = OP_GLOBAL_SET
    /\ status \notin {"returned", "idle"}
    /\ last.stack # <<>>
    /\ GlobalSetIndex < Len(module_.globals)
    /\ ~module_.globals[GlobalSetIndex + 1].is_mutable

\* C24: global.set of an immutable global raises a Trap and changes no global.
C24_ImmutableGlobalSetTraps ==
    ImmutableGlobalSet => status = "Trap" /\ globals_ = last.globals

\* a truncation was just executed on a sample of its source type
Truncation == Truncations[last.opcode]
TruncSource == last.stack[Len(last.stack)]
TruncExecuted ==
    /\ last.opcode \in DOMAIN Truncations
    /\ status \notin {"returned", "idle"}
    /\ last.stack # <<>>
    /\ TruncSource.type = Truncation.src
    /\ \E a \in F32Samples \cup F64Samples : a.rep = TruncSource.value
TruncSample == CHOOSE a \in F32Samples \cup F64Samples : a.rep = TruncSource.value

\* 2^k in five limbs; a < b for magnitudes in five limbs
Pow2Limbs(k) == [i \in 1..5 |-> IF i = (k \div 16) + 1 THEN Pow2(k % 16) ELSE 0]
MagnitudeBelow(a, b) == ~LimbsGeq(a, b)

\* the integral part of the sample lies in the range of the destination type
TruncInRange ==
    LET width == IF Truncation.dst = "i32" THEN 32 ELSE 64
    IN  IF ~Truncation.signed THEN MagnitudeBelow(TruncSample.mag, Pow2Limbs(width))
        ELSE \/ MagnitudeBelow(TruncSample.mag, Pow2Limbs(width - 1))
             \/ TruncSample.neg /\ TruncSample.mag = Pow2Limbs(width - 1)

TruncMustTrap ==
    \/ TruncSample.kind \in {"nan", "inf"}
    \/ ~TruncInRange
    \/ ~Truncation.signed /\ TruncSample.neg

\* the sample truncated toward zero, as a value of the destination type
Truncated ==
    LET low == SubSeq(TruncSample.mag, 1, IF Truncation.dst = "i32" THEN 2 ELSE 4)
    IN  [type  |-> Truncation.dst,
         value |-> LimbsInt(Truncation.dst, IF TruncSample.neg THEN LimbsNeg(low) ELSE low)]

\* C25: a non-saturating truncation raises a Trap when its source is NaN, an
\* infinity, a number whose integral part is outside the destination range or,
\* for the unsigned variants, a number below zero; for every other source it
\* replaces the source by its value truncated toward zero.
C25_TruncationTrapsOutsideRange ==
    TruncExecuted =>
        IF TruncMustTrap THEN status = "Trap"
        ELSE /\ status = "running"
             /\ stack_ = Append(SubSeq(last.stack, 1, Len(last.stack) - 1), Truncated)

\* the type of the typed pop an instruction starts with
FirstPop ==
    [opcode \in {OP_IF, OP_I32_ADD, OP_I64_DIV_U} \cup DOMAIN Truncations |->
        IF opcode \in DOMAIN Truncations THEN Truncations[opcode].src
        ELSE IF opcode = OP_I64_DIV_U THEN "i64"
        ELSE "i32"]

\* the typed pop of the instruction met an empty stack or a value of another
\* type
TypedPopFailed ==
    /\ last.opcode \in DOMAIN FirstPop
    /\ status \notin {"returned", "idle"}
    /\ \/ last.stack = <<>>
       \/ last.stack[Len(last.stack)].type # FirstPop[last.opcode]

\* C26: a typed pop on an empty operand stack, or on a top value of another
\* type, is reported as an Interpreter error and leaves the operand stack as
\* it was.
C26_TypedPopFailureIsInterpreterError ==
    TypedPopFailed => status = "InterpreterError" /\ stack_ = last.stack

\* an initialiser ahead of the start function failed: the declared memory was
\* not created, a global has no value, or a data segment does not fit
EarlierStepFailed ==
    \/ module_.memories # <<>> /\ memory_ = NoMemory
    \/ Len(globals_) < Len(module_.globals)
    \/ memory_ # NoMemory /\ \E i \in 1..Len(module_.data_segments) :
                               ~Fits(module_.data_segments[i])

\* nothing of a function has been set up, and the host has an exception
StartNotInvoked ==
    /\ native_ = <<>>
    /\ code_ = <<>>
    /\ status \notin {"new", "idle", "running", "returned"}

\* every global holds the value of its i32.const init expression
GlobalsInitialised ==
    /\ Len(globals_) = Len(module_.globals)
    /\ \A i \in 1..Len(globals_) :
         globals_[i] = makeI32(readVarInt32(module_.globals[i].init_expr, 1).val)

\* every byte of every data segment is in memory, a later segment winning
DataCopied ==
    \A i \in 1..Len(module_.data_segments) :
      LET segment == module_.data_segments[i]
      IN  \A k \in 1..Len(segment.data) :
            Survives(i, k) =>
              VecAt(memory_.data_, WAdd(OffsetValue(segment.offset_expr), W(0, k - 1)))
                = segment.data[k]

\* the start function is at its first instruction
StartEntered ==
    /\ status = "running"
    /\ Len(native_) = 1
    /\ native_[1].func_index = WOfNat(module_.start_function_index)
    /\ code_ = module_.functions[module_.start_function_index + 1].body
    /\ pc_ = 0
    /\ last = NoInstr

\* C27: instantiate of a module with a start function either fails in an
\* initialiser, and then the start function is not invoked, or enters the
\* start function with the declared memory created, every global holding its
\* initial value and every data segment copied.
C27_StartFunctionRunsLast ==
    [][(status = "new" /\ module_' # EmptyModule /\ module_'.has_start_function) =>
         IF EarlierStepFailed' THEN StartNotInvoked'
         ELSE /\ StartEntered'
              /\ module_'.memories # <<>> => memory_' # NoMemory
              /\ GlobalsInitialised'
              /\ DataCopied']_vars

\* a start function entered over a memory that holds a data segment
C27_Witness ==
    /\ StartEntered
    /\ module_.has_start_function
    /\ Len(module_.data_segments) = 1
    /\ ~EarlierStepFailed
    /\ globals_ = <<makeI32(16)>>
    /\ VecAt(memory_.data_, W(0, 1)) = 9

\* the step just taken was a global.set
WroteGlobal == last # NoInstr /\ last.opcode = OP_GLOBAL_SET

\* the step just taken was a store, a memory.grow, or fd_write called by the
\* guest or by the host
WroteMemory ==
    \/ /\ last # NoInstr
       /\ \/ last.opcode >= OP_I32_STORE /\ last.opcode <= OP_I64_STORE32
          \/ last.opcode = OP_MEMORY_GROW
          \/ /\ last.opcode = OP_CALL
             /\ Callee < getImportedFunctionCount(module_)
             /\ IsFdWrite(FunctionImport(Callee))
    \/ /\ last = NoInstr
       /\ HostCall
       /\ IsFdWrite(FunctionImport(native_[1].func_index.lo))

\* C28: once instantiated, the globals change only in a step that executes
\* global.set, and the memory (contents and size) only in a step that executes
\* a store, memory.grow or fd_write; the steps that end a call and begin the
\* next leave both as they are, so a call finds what the calls before wrote.
C28_StatePersistsAcrossCalls ==
    [][status # "new" =>
         /\ globals_' # globals_ => WroteGlobal'
         /\ memory_' # memory_ => WroteMemory']_vars

\* the second call reads 17 from the global the first call incremented from 16
C28_Witness ==
    /\ calls = 2
    /\ JustExecuted({OP_GLOBAL_GET})
    /\ last.globals = <<makeI32(17)>>
    /\ stack_ = Append(last.stack, makeI32(17))

\* what() holds the position the decoder had reached, ahead of a message
CarriesOffset(what) ==
    /\ Len(what) >= 4
    /\ what[2] = "At byte "
    /\ what[3] = position_

\* C29: a DecoderError raised by a Decoder operation carries the byte offset
\* at which it was detected together with a message.
C29_DecoderErrorCarriesOffset ==
    (decoded # NoDecoded /\ decoded.exc = "DecoderError") => CarriesOffset(decoded.what)

\* a block or an if was the last instruction executed, in a body that holds
\* the matching end of the construct
Scanned(opcode) ==
    /\ last # NoInstr
    /\ last.opcode = opcode
    /\ last.depth = Len(native_)
    /\ last.code = code_
    /\ status \notin {"idle", "returned"}
    /\ Construct(last.code, last.pc + 2, 1, 0).end_pc > 0

\* C30: entering a block, or an if whose condition is on the stack, the scan
\* finds the position right after the matching end: it is the target of the
\* label pushed, or where execution continues when the if has no arm to run.
C30_ScanFindsMatchingEnd ==
    /\ Scanned(OP_BLOCK) =>
         status = "running" /\ EntersConstruct(Construct(last.code, last.pc + 2, 1, 0).end_pc)
    /\ (Scanned(OP_IF) /\ last.stack # <<>> /\ last.stack[Len(last.stack)].type = "i32") =>
         /\ status = "running"
         /\ IF IfCondition # 0 \/ IfConstruct.else_pc > 0
            THEN EntersConstruct(IfConstruct.end_pc)
            ELSE pc_ = IfConstruct.end_pc

-----------------------------------------------------------------------------
(* Claims about labels, frames and the decoder's cursor *)

\* the labels below the target of the branch just taken, as they were
LabelsBelowTarget ==
    SubSeq(last.br.labels, 1, Len(last.br.labels) - 1 - last.br.depth.lo)

\* C31: a branch to the label at depth d leaves the labels below the target
\* as they were and removes those above it; the target itself is removed when
\* it is a block or if label and kept when it is a loop label.
C31_BranchRemovesLabels ==
    BranchTaken =>
        labels_ = IF BranchLabel.is_loop THEN Append(LabelsBelowTarget, BranchLabel)
                  ELSE LabelsBelowTarget

\* a branch to a loop label from inside a construct nested in the loop, the
\* loop itself nested in another construct
C31_Witness ==
    /\ BranchTaken
    /\ BranchLabel.is_loop
    /\ last.br.depth.lo >= 1
    /\ Len(labels_) >= 2
    /\ labels_[Len(labels_)] = BranchLabel

\* the frame on top of the native stack: what the call in progress saved
Saved == native_[Len(native_)]

\* the stack a call must leave: the stack the callee found, less its
\* parameters, plus one value of each result type
LeavesResults(stack, entry_stack, type) ==
    LET below == SubSeq(entry_stack, 1, Len(entry_stack) - Len(type.params))
    IN  /\ Len(stack) = Len(below) + Len(type.results)
        /\ SubSeq(stack, 1, Len(below)) = below
        /\ \A i \in 1..Len(type.results) : stack[Len(below) + i].type = type.results[i]

\* C32: a call or call_indirect saves the caller's pc (just after the call
\* instruction), code, locals and labels when the callee starts; no step of
\* the callee touches a saved frame; and the return restores exactly what was
\* saved, at every depth, the operand stack having lost the callee's
\* arguments and gained its results (for the modules of well-typed functions).
C32_CallRestoresCallerFrame ==
    [][(status = "running" /\ status' = "running" /\ native_ # <<>>) =>
         /\ Len(native_') = Len(native_) + 1 =>
              /\ SubSeq(native_', 1, Len(native_)) = native_
              /\ Saved'.return_pc = ImmediatesEnd(code_, Opcode, pc_ + 1)
              /\ Saved'.return_code = code_
              /\ Saved'.return_locals = locals_
              /\ Saved'.return_labels = labels_
         /\ Len(native_') = Len(native_) => native_' = native_
         /\ Len(native_') < Len(native_) =>
              /\ native_' = SubSeq(native_, 1, Len(native_) - 1)
              /\ pc_' = Saved.return_pc
              /\ code_' = Saved.return_code
              /\ locals_' = Saved.return_locals
              /\ labels_' = Saved.return_labels
              /\ module_ \in FrameModules =>
                   LeavesResults(stack_', Saved.entry_stack,
                                 getFunctionType(module_, Saved.func_index))]_vars

\* the section loop has parsed a section and is about to test for the next
SectionParsed ==
    decoded # NoDecoded /\ decoded.op = "parseModule" /\ decoded.section # NoSection

\* section_start + section_size of the section just parsed
SectionEnd == decoded.section.section_start + decoded.section.section_size

\* C33 as stated: after each section the cursor, where the next section id is
\* read, is section_start + section_size exactly, whatever the parser consumed.
C33_NextSectionAtDeclaredEnd ==
    SectionParsed => position_ = SectionEnd

\* C33: after each section the cursor is section_start + section_size when the
\* section's parser consumed at most section_size bytes, and where the parser
\* stopped when it consumed more.
C33_NextSectionAtDeclaredEndUnlessOverread ==
    SectionParsed =>
        position_ = IF decoded.section.parsed_to <= SectionEnd THEN SectionEnd
                    ELSE decoded.section.parsed_to

\* a Type section declared one byte long was parsed to its fourth byte, and
\* the next section id is read from there
C33_Witness ==
    /\ SectionParsed
    /\ decoded.section.section_id = SEC_TYPE
    /\ decoded.section.parsed_to = SectionEnd + 3
    /\ position_ = decoded.section.parsed_to
    /\ Decoder_hasMoreData(buffer_, position_)

\* the number of block, loop and if constructs that enclose position pc of a
\* body, counted from position `at` where `depth` of them are open: -1 behind
\* the end of the function, -2 when the body is not well nested up to pc or
\* pc is inside an instruction
RECURSIVE Enclosing(_, _, _, _)
Enclosing(code, at, pc, depth) ==
    IF at = pc THEN depth
    ELSE IF at > pc \/ at >= Len(code) \/ depth < 0 THEN -2
    ELSE LET opcode == ByteAt(code, at)
         IN  IF opcode \in {OP_BLOCK, OP_LOOP, OP_IF} THEN Enclosing(code, at + 2, pc, depth + 1)
             ELSE IF opcode = OP_END THEN Enclosing(code, at + 1, pc, depth - 1)
             ELSE Enclosing(code, ImmediatesEnd(code, opcode, at + 1), pc, depth)

\* every end of the body closes a construct and its last end the function
WellNested(code) == Enclosing(code, 0, Len(code), 0) = -1

\* the constructs that enclose pc, none behind the function's final end
StaticDepth(code, pc) ==
    IF pc = Len(code) THEN 0 ELSE Enclosing(code, 0, pc, 0)

\* C34: while a well-nested body runs, after every instruction the label
\* stack holds as many labels as block, loop and if constructs enclose the
\* current pc, and none once the function's final end has run.
C34_LabelsMatchNesting ==
    (status = "running" /\ ~HostCall /\ WellNested(code_)) =>
        Len(labels_) = StaticDepth(code_, pc_)

\* callFunction returns normally from a function of the modules of well-typed
\* functions
ReturnsNormally ==
    /\ status = "running"
    /\ Len(native_) = 1
    /\ status' = "returned"
    /\ module_ \in FrameModules

\* C35: when callFunction on a well-typed local function returns normally,
\* the operand stack is as high as it was before the arguments were pushed,
\* however the function ended (final end, return, branch out of its blocks).
C35_CallFunctionRestoresHeight ==
    [][ReturnsNormally => Len(stack_') = Len(native_[1].host_stack)]_vars

\* what the functions 0..5 of the modules of well-typed functions return when
\* called on a fresh instance: nothing, or the i32 result of functions 2, 3
\* and 4 (function 5 traps)
FreshResults(func_index) ==
    CASE func_index = 2 -> <<makeI32(7)>>
      [] func_index = 3 -> <<makeI32(9)>>
      [] func_index = 4 -> <<makeI32(4)>>
      [] OTHER          -> <<>>

\* the operand stack holds what function 5 left when it trapped
TrapLeftovers(stack) ==
    \E i \in 1..(Len(stack) - 1) : stack[i] = makeI32(1) /\ stack[i + 1] = makeI32(2)

BranchReached ==
    /\ last # NoInstr
    /\ last.opcode \in {OP_BR, OP_BR_IF, OP_BR_TABLE}
    /\ last.opcode # OP_BR =>
         last.stack # <<>> /\ last.stack[Len(last.stack)].type = "i32"

\* the operand a br_if or br_table popped
BranchOperand == last.stack[Len(last.stack)].value

\* the operand stack when branch() is called: br_if and br_table have popped
\* their operand
StackAtBranch ==
    IF last.opcode = OP_BR THEN last.stack ELSE SubSeq(last.stack, 1, Len(last.stack) - 1)

\* the depth the instruction selects, read from its immediates: the label of
\* br and br_if, labels[index] or the default of br_table
SelectedDepth ==
    LET at    == last.pc + 1
        count == LebNat(last.code, at)
    IN  IF last.opcode # OP_BR_TABLE THEN LebNat(last.code, at)
        ELSE IF BranchOperand < 0 \/ BranchOperand >= count
        THEN LebNat(last.code, LebsEnd(last.code, at, count + 1))
        ELSE LebNat(last.code, LebsEnd(last.code, at, BranchOperand + 1))

\* a br, a taken br_if or a br_table selected a depth that no label has
BranchOutOfRange ==
    /\ BranchReached
    /\ last.opcode = OP_BR_IF => BranchOperand # 0
    /\ SelectedDepth >= Len(last.labels)

\* C37: a br, taken br_if or br_table whose selected depth is at least the
\* number of labels raises an interpreter error; the operand stack (less the
\* operand of br_if and br_table) and the label stack are as the branch found
\* them and the function has not returned.
C37_BranchOutOfRangeRaises ==
    BranchOutOfRange =>
        /\ status = "InterpreterError"
        /\ stack_ = StackAtBranch
        /\ labels_ = last.labels
        /\ Len(native_) = last.depth
        /\ code_ = last.code

\* a br_table selected the depth that is the number of labels, with a label
\* and operands to lose
C37_Witness ==
    /\ BranchOutOfRange
    /\ last.opcode = OP_BR_TABLE
    /\ SelectedDepth = Len(last.labels)
    /\ Len(labels_) >= 1
    /\ Len(stack_) >= 1
    /\ status = "InterpreterError"

\* parseBytes has returned or thrown
ParseBytesEnded == decoded # NoDecoded /\ decoded.op = "parseBytes"

\* an iteration of the section loop has run to its end
SectionLoopIterated ==
    /\ decoded # NoDecoded
    /\ decoded.op = "parseModule"
    /\ decoded'.op = "parseModule"

\* C38: parseBytes ends on every buffer, with a module or a decoder error;
\* its cursor never moves backwards and every iteration of the section loop
\* advances it by at least two bytes.
C38_ParseBytesTerminates ==
    /\ [][position_' >= position_]_vars
    /\ [][SectionLoopIterated => position_' >= position_ + 2]_vars
    /\ <>ParseBytesEnded
    /\ [](ParseBytesEnded => decoded.exc \in {"none", "DecoderError"})

\* C39: when a declared length (a name, the bytes of a data segment, a
\* function body, an init expression) exceeds the bytes remaining, or a
\* function body's declared size is smaller than its local declarations,
\* parseBytes raises a decoder error, its cursor inside the buffer.
C39_ReadsStayInsideBuffer ==
    (ParseBytesEnded /\ buffer_ \in DeclaredTooLongBuffers \cup BodyTooShortBuffers) =>
        decoded.exc = "DecoderError" /\ position_ <= Len(buffer_)

====
